---- MODULE Spec2Model ----
(***************************************************************************)
(* Model of the gesture-control engine: the per-frame pipeline of          *)
(* gesture_engine.py (redetection scheduler, tracker smoothing, landmark   *)
(* / gesture processing with majority-vote smoothing) and the dispatcher   *)
(* of application_modes.py (mode switching, per-gesture cooldowns, cursor  *)
(* and scroll controllers).                                                *)
(*                                                                         *)
(* Units.  Time is counted in ticks of 0.05 s (0.6 s = 12 ticks); the      *)
(* clock is time.time(), seconds since the epoch, so its first reading     *)
(* (StartTime) lies beyond every cooldown.  Vertical fingertip positions   *)
(* are counted in thousandths of the normalised frame height.              *)
(***************************************************************************)
EXTENDS Integers, Sequences, FiniteSets, TLC

VARIABLES
    now,          \* the reading of time.time(), in ticks
    app_modes,    \* the ApplicationModesConfig object (config_manager.app_modes)
    params,       \* the engine's params dict (the fields the pipeline mutates)
    engine,       \* CompleteGestureEngine's own fields: running, paused, frame_count
    effector,     \* the pyautogui calls issued by the latest operation
    ret,          \* the latest operation, its inputs and what it returned
    trace,        \* the outcomes of the first calls of a scripted scenario
    model_manager, \* the ModelManager singleton: _initialized, compiled_models, _lock
    pc            \* where each thread stands inside a call it has not finished

vars == <<now, app_modes, params, engine, effector, ret, trace, model_manager, pc>>

(***************************************************************************)
(* Bounds of the model and program constants.                              *)
(***************************************************************************)
StartTime == 40            \* first clock reading, in ticks
MaxElapsed == 14           \* ticks the clock may advance (dispatcher, scheduler, scroll)
MaxElapsedMode == 44       \* ticks the clock may advance in the mode-switch model

ModeSwitchCooldown == 40   \* mode_switch_cooldown = 2.0 s
KeyPressCooldown == 12     \* cooldown = 0.6 s
SkipCooldown == 6          \* cooldown = 0.3 s
ClickCooldown == 8         \* cooldown = 0.4 s
IloveyouSwitchCooldown == 20  \* browser_iloveyou_switch_cooldown = 1.0 s
GracePeriodDuration == 10  \* grace_period_duration = 0.5 s
PeriodicCheckInterval == 3 \* periodic_check_interval (a configuration value)
GestureSmoothingFrames == 6   \* gesture_smoothing_frames
DirectionLockThreshold == 30  \* 0.03 of the frame height
ScrollThrottle == 2        \* 0.1 s between scroll ticks
ScrollSensitivity == 6     \* scroll_sensitivity
MinScrollAmount == 2       \* abs(scroll_amount) > 2

None == "None"

\* The mode-shaped attributes of ApplicationModesConfig.
Modes == {"ppt_mode", "media_mode", "browser_mode"}

\* Names a caller may pass to switch_mode: the registered modes, 'disabled',
\* a name that is no attribute of the config object, and the name of an
\* attribute that is no mode (debug_mode, a bool that is True).
ModeArgs == Modes \cup {"disabled", "bogus_mode", "debug_mode"}

GestureIds == {"left_index_bent", "right_index_bent", "left_index_middle_bent",
               "right_index_middle_bent", "fist_gesture", "open_palm_gesture",
               "iloveyou_gesture"}

\* ApplicationModeGesture: key is the sequence of the '+'-separated parts of
\* the key string (<<>> for None or ''), button is "" for None or ''.
Binding(action, key, button, cooldown) ==
    [action |-> action, key |-> key, button |-> button, cooldown |-> cooldown]

\* _initialize_default_app_modes: the default binding maps.
DefaultGestures ==
    [m \in Modes |->
        CASE m = "ppt_mode" ->
               [g \in {"right_index_bent", "left_index_bent", "fist_gesture"} |->
                   CASE g = "right_index_bent" -> Binding("key_press", <<"right">>, "", 16)
                     [] g = "left_index_bent" -> Binding("key_press", <<"left">>, "", 16)
                     [] OTHER -> Binding("key_press", <<"f5">>, "", 40)]
          [] m = "media_mode" ->
               [g \in {"right_index_bent", "right_index_middle_bent",
                       "left_index_middle_bent", "left_index_bent", "fist_gesture"} |->
                   CASE g = "right_index_bent" -> Binding("key_press", <<"space">>, "", KeyPressCooldown)
                     [] g = "right_index_middle_bent" -> Binding("key_press", <<"right">>, "", SkipCooldown)
                     [] g = "left_index_middle_bent" -> Binding("key_press", <<"left">>, "", SkipCooldown)
                     [] g = "left_index_bent" -> Binding("key_press", <<"m">>, "", 16)
                     [] OTHER -> Binding("key_press", <<"f">>, "", 30)]
          [] OTHER ->
               [g \in {"left_index_bent", "left_index_middle_bent"} |->
                   CASE g = "left_index_bent" -> Binding("mouse_click", <<>>, "left", ClickCooldown)
                     [] OTHER -> Binding("mouse_click", <<>>, "right", KeyPressCooldown)]]

\* ApplicationModesConfig(): the default configuration object.
DefaultAppModes ==
    [current_mode |-> "disabled",
     enabled |-> [m \in Modes |-> FALSE],
     last_mode_switch |-> 0,
     gesture_timings |-> <<>>,
     gestures |-> DefaultGestures,
     browser_right_hand_mode |-> "cursor",
     browser_last_iloveyou_switch |-> 0]

(***************************************************************************)
(* ApplicationModeManager._execute_application_gesture                     *)
(***************************************************************************)
\* gesture_timings.get(gesture_id, 0)
LastFired(am, gid) ==
    IF gid \in DOMAIN am.gesture_timings THEN am.gesture_timings[gid] ELSE 0

\* gesture_timings[gesture_id] = current_time
SetFired(am, gid, t) ==
    [am EXCEPT !.gesture_timings =
        [g \in (DOMAIN am.gesture_timings) \cup {gid} |->
            IF g = gid THEN t ELSE am.gesture_timings[g]]]

ValidButtons == {"left", "middle", "right", "primary", "secondary"}

Call(fn, arg, gid, ok) == [fn |-> fn, arg |-> arg, gid |-> gid, ok |-> ok]

\* A cooldown test that lets an activation through one tick early.
InCooldownEarly(am, t, gid, cfg) == t - LastFired(am, gid) < cfg.cooldown - 1

InCooldown(am, t, gid, cfg) == t - LastFired(am, gid) < cfg.cooldown

\* An execution that forgets to record the firing time.
ExecuteNoRecord(am, t, gid, cfg, raises) ==
    IF InCooldown(am, t, gid, cfg) THEN [am |-> am, eff |-> <<>>, val |-> FALSE]
    ELSE [am |-> am, eff |-> <<Call("press", cfg.key, gid, TRUE)>>, val |-> TRUE]

\* An execution that records the firing time although the effector raised.
ExecuteRecordsFailure(am, t, gid, cfg, raises) ==
    IF InCooldown(am, t, gid, cfg)
    THEN [am |-> am, eff |-> <<>>, val |-> FALSE]
    ELSE IF cfg.action = "key_press" /\ cfg.key # <<>>
    THEN [am |-> SetFired(am, gid, t),
          eff |-> <<Call(IF Len(cfg.key) > 1 THEN "hotkey" ELSE "press",
                         cfg.key, gid, ~raises)>>,
          val |-> ~raises]
    ELSE IF cfg.action = "mouse_click" /\ cfg.button \in ValidButtons
    THEN [am |-> SetFired(am, gid, t),
          eff |-> <<Call("click", cfg.button, gid, ~raises)>>, val |-> ~raises]
    ELSE [am |-> am, eff |-> <<>>, val |-> FALSE]

\* The result: the config object, the effector calls made, the return value.
\* `raises` says whether the effector call, if one is made, raises.
ExecuteApplicationGesture(am, t, gid, cfg, raises) ==
    IF InCooldown(am, t, gid, cfg)
    THEN [am |-> am, eff |-> <<>>, val |-> FALSE]
    ELSE IF cfg.action = "key_press" /\ cfg.key # <<>>
    THEN LET fn == IF Len(cfg.key) > 1 THEN "hotkey" ELSE "press"
         IN  IF raises
             THEN [am |-> am, eff |-> <<Call(fn, cfg.key, gid, FALSE)>>, val |-> FALSE]
             ELSE [am |-> SetFired(am, gid, t),
                   eff |-> <<Call(fn, cfg.key, gid, TRUE)>>, val |-> TRUE]
    ELSE IF cfg.action = "mouse_click" /\ cfg.button # ""
    THEN IF cfg.button \notin ValidButtons
         THEN [am |-> am, eff |-> <<>>, val |-> FALSE]
         ELSE IF raises
         THEN [am |-> am, eff |-> <<Call("click", cfg.button, gid, FALSE)>>, val |-> FALSE]
         ELSE [am |-> SetFired(am, gid, t),
               eff |-> <<Call("click", cfg.button, gid, TRUE)>>, val |-> TRUE]
    ELSE [am |-> am, eff |-> <<>>, val |-> FALSE]

(***************************************************************************)
(* ApplicationModeManager.switch_mode                                      *)
(***************************************************************************)
\* getattr(self.app_modes, name, None): a mode object, None, or another
\* attribute of the config object.
Getattr(name) ==
    IF name \in Modes THEN "mode"
    ELSE IF name = "debug_mode" THEN "other"
    ELSE None

\* A switch that does not look at the cooldown.
SwitchModeNoCooldown(am, t, mode_name) ==
    [am |-> [am EXCEPT !.current_mode = mode_name, !.last_mode_switch = t],
     val |-> "True"]

\* A switch that puts the right hand back on the cursor when the browser
\* mode is entered.
\* A switch that empties the map of firing times.
SwitchModeClearsTimings(am, t, mode_name) ==
    IF t - am.last_mode_switch < ModeSwitchCooldown
    THEN [am |-> am, val |-> "False"]
    ELSE [am |-> [am EXCEPT
                    !.enabled = [m \in Modes |-> m = mode_name],
                    !.current_mode = mode_name,
                    !.last_mode_switch = t,
                    !.gesture_timings = <<>>],
          val |-> "True"]

SwitchModeResetsSubMode(am, t, mode_name) ==
    IF t - am.last_mode_switch < ModeSwitchCooldown
    THEN [am |-> am, val |-> "False"]
    ELSE [am |-> [am EXCEPT
                    !.enabled = [m \in Modes |-> m = mode_name],
                    !.current_mode = mode_name,
                    !.last_mode_switch = t,
                    !.browser_right_hand_mode =
                        IF mode_name = "browser_mode" THEN "cursor" ELSE @],
          val |-> "True"]

\* val is "True", "False", or "raised" (AttributeError: `.enabled` assigned
\* on an attribute that is not a mode object).
SwitchMode(am, t, mode_name) ==
    IF t - am.last_mode_switch < ModeSwitchCooldown
    THEN [am |-> am, val |-> "False"]
    ELSE IF am.current_mode # "disabled" /\ Getattr(am.current_mode) = "other"
    THEN [am |-> am, val |-> "raised"]
    ELSE LET a1 == IF am.current_mode # "disabled" /\ Getattr(am.current_mode) = "mode"
                   THEN [am EXCEPT !.enabled[am.current_mode] = FALSE]
                   ELSE am
             a2 == [a1 EXCEPT !.current_mode = mode_name]
         IN  IF mode_name # "disabled" /\ Getattr(mode_name) = "other"
             THEN [am |-> a2, val |-> "raised"]
             ELSE LET a3 == IF mode_name # "disabled" /\ Getattr(mode_name) = "mode"
                            THEN [a2 EXCEPT !.enabled[mode_name] = TRUE]
                            ELSE a2
                  IN  [am |-> [a3 EXCEPT !.last_mode_switch = t], val |-> "True"]

(***************************************************************************)
(* ApplicationModeManager._handle_browser_mode_iloveyou                    *)
(***************************************************************************)
\* A region as the dispatcher sees it: landmarks says whether the landmarks
\* attribute is set, hand is "right" iff handedness > 0.5, gesture_type and
\* gesture_name are None when the attribute is absent; tip is the index
\* fingertip, finger_distance the index/middle fingertip distance and
\* center_y the fingertips' midpoint Y.
HandType(region) == region.hand

\* A toggle that does not look at the hand.
HandleBrowserModeIloveyouAnyHand(am, t, region) ==
    IF ~am.enabled["browser_mode"] THEN am
    ELSE IF region.gesture_name # "ILoveYou" THEN am
    ELSE IF t - am.browser_last_iloveyou_switch < IloveyouSwitchCooldown THEN am
    ELSE [am EXCEPT !.browser_right_hand_mode =
                        IF am.browser_right_hand_mode = "cursor" THEN "scroll" ELSE "cursor",
                    !.browser_last_iloveyou_switch = t]

HandleBrowserModeIloveyou(am, t, region) ==
    IF ~am.enabled["browser_mode"] THEN am
    ELSE IF region.gesture_name # "ILoveYou" THEN am
    ELSE IF HandType(region) # "right" THEN am
    ELSE IF t - am.browser_last_iloveyou_switch < IloveyouSwitchCooldown THEN am
    ELSE [am EXCEPT !.browser_right_hand_mode =
                        IF am.browser_right_hand_mode = "cursor" THEN "scroll" ELSE "cursor",
                    !.browser_last_iloveyou_switch = t]

(***************************************************************************)
(* ApplicationModeManager.handle_cursor_control                            *)
(***************************************************************************)
ScreenWidth == 1920
ScreenHeight == 1080
CursorSmoothingTenths == 7   \* cursor_smoothing = 0.7

\* Positions are in tenths of the frame (tip) and in pixels (screen); the
\* smoothed position is kept to the pixel.
CursorTarget(tip) ==
    <<(ScreenWidth * (10 - tip[1])) \div 10, (ScreenHeight * tip[2]) \div 10>>

\* A smoothing with the two weights exchanged.
CursorSmoothSwapped(prev, target) ==
    <<((10 - CursorSmoothingTenths) * prev[1] + CursorSmoothingTenths * target[1]) \div 10,
      ((10 - CursorSmoothingTenths) * prev[2] + CursorSmoothingTenths * target[2]) \div 10>>

CursorSmooth(prev, target) ==
    <<(CursorSmoothingTenths * prev[1] + (10 - CursorSmoothingTenths) * target[1]) \div 10,
      (CursorSmoothingTenths * prev[2] + (10 - CursorSmoothingTenths) * target[2]) \div 10>>

HandleCursorControl(p, region, force_enable, raises) ==
    IF ~force_enable /\ ~p.enable_cursor_control THEN [p |-> p, eff |-> <<>>]
    ELSE IF ~region.landmarks THEN [p |-> p, eff |-> <<>>]
    ELSE LET target == CursorTarget(region.tip)
             smooth == IF p.previous_cursor_pos # None
                       THEN CursorSmooth(p.previous_cursor_pos, target)
                       ELSE target
         IN  IF raises
             THEN [p |-> p, eff |-> <<Call("moveTo", smooth, None, FALSE)>>]
             ELSE [p |-> [p EXCEPT !.previous_cursor_pos = smooth],
                   eff |-> <<Call("moveTo", smooth, None, TRUE)>>]

(***************************************************************************)
(* ApplicationModeManager.handle_scroll_control                            *)
(***************************************************************************)
ScrollThreshold == 100     \* scroll_threshold = 0.1

InitialScrollState ==
    [is_scrolling |-> FALSE, start_pos |-> None, locked_direction |-> None,
     active_hand |-> None, last_scroll_time |-> 0]

Abs(x) == IF x < 0 THEN -x ELSE x

\* int(x / d) of Python: truncation toward zero.
TruncDiv(x, d) == IF x >= 0 THEN x \div d ELSE -((-x) \div d)

\* int(-delta_from_start * scroll_sensitivity * 80), delta in thousandths
ScrollAmount(delta) == TruncDiv(-delta * ScrollSensitivity * 80, 1000)

Direction(delta) == IF delta > 0 THEN "down" ELSE "up"

\* A lock that follows the instantaneous direction on every frame.
LockDirectionFollow(ss, delta) ==
    IF Abs(delta) > DirectionLockThreshold
    THEN [ss EXCEPT !.locked_direction = Direction(delta)]
    ELSE ss

\* Lock direction after sufficient movement.
LockDirection(ss, delta) ==
    IF ss.locked_direction = None /\ Abs(delta) > DirectionLockThreshold
    THEN [ss EXCEPT !.locked_direction = Direction(delta)]
    ELSE ss

\* A direction test that lets every gripped frame scroll.
DirectionAny(ss, delta) == TRUE

\* Only scroll in the locked direction.
DirectionMatches(ss, delta) == Direction(delta) = ss.locked_direction

\* A controller that does not look at scroll_hand_preference.
HandleScrollControlAnyHand(p, t, region, force_enable, raises) ==
    IF ~force_enable /\ ~p.enable_scroll_control THEN [p |-> p, eff |-> <<>>]
    ELSE IF ~region.landmarks THEN [p |-> p, eff |-> <<>>]
    ELSE LET ss == p.scroll_state IN
      IF region.finger_distance < ScrollThreshold
      THEN IF ~ss.is_scrolling
           THEN [p |-> [p EXCEPT !.scroll_state =
                           [ss EXCEPT !.is_scrolling = TRUE,
                                      !.start_pos = region.center_y,
                                      !.active_hand = HandType(region),
                                      !.locked_direction = None]],
                 eff |-> <<>>]
           ELSE IF ss.active_hand # HandType(region) THEN [p |-> p, eff |-> <<>>]
           ELSE LET delta == region.center_y - ss.start_pos
                    s1 == LockDirection(ss, delta)
                    amount == ScrollAmount(delta)
                IN  IF s1.locked_direction # None /\ DirectionMatches(s1, delta)
                       /\ t - s1.last_scroll_time > ScrollThrottle
                       /\ Abs(amount) > MinScrollAmount
                    THEN IF raises
                         THEN [p |-> [p EXCEPT !.scroll_state = s1],
                               eff |-> <<Call("scroll", amount, None, FALSE)>>]
                         ELSE [p |-> [p EXCEPT !.scroll_state =
                                         [s1 EXCEPT !.last_scroll_time = t]],
                               eff |-> <<Call("scroll", amount, None, TRUE)>>]
                    ELSE [p |-> [p EXCEPT !.scroll_state = s1], eff |-> <<>>]
      ELSE IF ss.is_scrolling
           THEN [p |-> [p EXCEPT !.scroll_state =
                           [ss EXCEPT !.is_scrolling = FALSE, !.start_pos = None,
                                      !.locked_direction = None, !.active_hand = None]],
                 eff |-> <<>>]
           ELSE [p |-> p, eff |-> <<>>]

\* A controller whose release keeps the locked direction.
HandleScrollControlKeepsLock(p, t, region, force_enable, raises) ==
    IF ~force_enable /\ ~p.enable_scroll_control THEN [p |-> p, eff |-> <<>>]
    ELSE IF ~region.landmarks THEN [p |-> p, eff |-> <<>>]
    ELSE IF p.scroll_hand_preference # "any" /\ HandType(region) # p.scroll_hand_preference
    THEN [p |-> p, eff |-> <<>>]
    ELSE LET ss == p.scroll_state IN
      IF region.finger_distance < ScrollThreshold
      THEN IF ~ss.is_scrolling
           THEN [p |-> [p EXCEPT !.scroll_state =
                           [ss EXCEPT !.is_scrolling = TRUE,
                                      !.start_pos = region.center_y,
                                      !.active_hand = HandType(region),
                                      !.locked_direction = None]],
                 eff |-> <<>>]
           ELSE IF ss.active_hand # HandType(region) THEN [p |-> p, eff |-> <<>>]
           ELSE LET delta == region.center_y - ss.start_pos
                    s1 == LockDirection(ss, delta)
                    amount == ScrollAmount(delta)
                IN  IF s1.locked_direction # None /\ DirectionMatches(s1, delta)
                       /\ t - s1.last_scroll_time > ScrollThrottle
                       /\ Abs(amount) > MinScrollAmount
                    THEN [p |-> [p EXCEPT !.scroll_state =
                                    [s1 EXCEPT !.last_scroll_time =
                                        IF raises THEN @ ELSE t]],
                          eff |-> <<Call("scroll", amount, None, ~raises)>>]
                    ELSE [p |-> [p EXCEPT !.scroll_state = s1], eff |-> <<>>]
      ELSE IF ss.is_scrolling
           THEN [p |-> [p EXCEPT !.scroll_state =
                           [ss EXCEPT !.is_scrolling = FALSE, !.start_pos = None,
                                      !.active_hand = None]],
                 eff |-> <<>>]
           ELSE [p |-> p, eff |-> <<>>]

\* A controller whose release forgets the time of the last tick.
HandleScrollControlForgetsTick(p, t, region, force_enable, raises) ==
    IF ~force_enable /\ ~p.enable_scroll_control THEN [p |-> p, eff |-> <<>>]
    ELSE IF ~region.landmarks THEN [p |-> p, eff |-> <<>>]
    ELSE IF p.scroll_hand_preference # "any" /\ HandType(region) # p.scroll_hand_preference
    THEN [p |-> p, eff |-> <<>>]
    ELSE LET ss == p.scroll_state IN
      IF region.finger_distance < ScrollThreshold
      THEN IF ~ss.is_scrolling
           THEN [p |-> [p EXCEPT !.scroll_state =
                           [ss EXCEPT !.is_scrolling = TRUE,
                                      !.start_pos = region.center_y,
                                      !.active_hand = HandType(region),
                                      !.locked_direction = None]],
                 eff |-> <<>>]
           ELSE IF ss.active_hand # HandType(region) THEN [p |-> p, eff |-> <<>>]
           ELSE LET delta == region.center_y - ss.start_pos
                    s1 == LockDirection(ss, delta)
                    amount == ScrollAmount(delta)
                IN  IF s1.locked_direction # None /\ DirectionMatches(s1, delta)
                       /\ t - s1.last_scroll_time > ScrollThrottle
                       /\ Abs(amount) > MinScrollAmount
                    THEN [p |-> [p EXCEPT !.scroll_state =
                                    [s1 EXCEPT !.last_scroll_time =
                                        IF raises THEN @ ELSE t]],
                          eff |-> <<Call("scroll", amount, None, ~raises)>>]
                    ELSE [p |-> [p EXCEPT !.scroll_state = s1], eff |-> <<>>]
      ELSE IF ss.is_scrolling
           THEN [p |-> [p EXCEPT !.scroll_state = InitialScrollState], eff |-> <<>>]
           ELSE [p |-> p, eff |-> <<>>]

\* A controller that moves the grip to whichever hand pinches.
HandleScrollControlRebinds(p, t, region, force_enable, raises) ==
    IF ~force_enable /\ ~p.enable_scroll_control THEN [p |-> p, eff |-> <<>>]
    ELSE IF ~region.landmarks THEN [p |-> p, eff |-> <<>>]
    ELSE IF p.scroll_hand_preference # "any" /\ HandType(region) # p.scroll_hand_preference
    THEN [p |-> p, eff |-> <<>>]
    ELSE LET ss == p.scroll_state IN
      IF region.finger_distance < ScrollThreshold
      THEN IF ~ss.is_scrolling \/ ss.active_hand # HandType(region)
           THEN [p |-> [p EXCEPT !.scroll_state =
                           [ss EXCEPT !.is_scrolling = TRUE,
                                      !.start_pos = region.center_y,
                                      !.active_hand = HandType(region),
                                      !.locked_direction = None]],
                 eff |-> <<>>]
           ELSE LET delta == region.center_y - ss.start_pos
                    s1 == LockDirection(ss, delta)
                    amount == ScrollAmount(delta)
                IN  IF s1.locked_direction # None /\ DirectionMatches(s1, delta)
                       /\ t - s1.last_scroll_time > ScrollThrottle
                       /\ Abs(amount) > MinScrollAmount
                    THEN [p |-> [p EXCEPT !.scroll_state =
                                    [s1 EXCEPT !.last_scroll_time =
                                        IF raises THEN @ ELSE t]],
                          eff |-> <<Call("scroll", amount, None, ~raises)>>]
                    ELSE [p |-> [p EXCEPT !.scroll_state = s1], eff |-> <<>>]
      ELSE IF ss.is_scrolling
           THEN [p |-> [p EXCEPT !.scroll_state =
                           [ss EXCEPT !.is_scrolling = FALSE, !.start_pos = None,
                                      !.locked_direction = None, !.active_hand = None]],
                 eff |-> <<>>]
           ELSE [p |-> p, eff |-> <<>>]

HandleScrollControl(p, t, region, force_enable, raises) ==
    IF ~force_enable /\ ~p.enable_scroll_control THEN [p |-> p, eff |-> <<>>]
    ELSE IF ~region.landmarks THEN [p |-> p, eff |-> <<>>]
    ELSE IF p.scroll_hand_preference # "any" /\ HandType(region) # p.scroll_hand_preference
    THEN [p |-> p, eff |-> <<>>]
    ELSE LET ss == p.scroll_state IN
      IF region.finger_distance < ScrollThreshold
      THEN IF ~ss.is_scrolling
           THEN [p |-> [p EXCEPT !.scroll_state =
                           [ss EXCEPT !.is_scrolling = TRUE,
                                      !.start_pos = region.center_y,
                                      !.active_hand = HandType(region),
                                      !.locked_direction = None]],
                 eff |-> <<>>]
           ELSE IF ss.active_hand # HandType(region) THEN [p |-> p, eff |-> <<>>]
           ELSE LET delta == region.center_y - ss.start_pos
                    s1 == LockDirection(ss, delta)
                    amount == ScrollAmount(delta)
                IN  IF s1.locked_direction # None /\ DirectionMatches(s1, delta)
                       /\ t - s1.last_scroll_time > ScrollThrottle
                       /\ Abs(amount) > MinScrollAmount
                    THEN IF raises
                         THEN [p |-> [p EXCEPT !.scroll_state = s1],
                               eff |-> <<Call("scroll", amount, None, FALSE)>>]
                         ELSE [p |-> [p EXCEPT !.scroll_state =
                                         [s1 EXCEPT !.last_scroll_time = t]],
                               eff |-> <<Call("scroll", amount, None, TRUE)>>]
                    ELSE [p |-> [p EXCEPT !.scroll_state = s1], eff |-> <<>>]
      ELSE IF ss.is_scrolling
           THEN [p |-> [p EXCEPT !.scroll_state =
                           [ss EXCEPT !.is_scrolling = FALSE, !.start_pos = None,
                                      !.locked_direction = None, !.active_hand = None]],
                 eff |-> <<>>]
           ELSE [p |-> p, eff |-> <<>>]

(***************************************************************************)
(* CompleteGestureEngine._smart_palm_detection_state_machine               *)
(***************************************************************************)
\* A grace test that is satisfied one tick early.
GraceElapsedEarly(p, t) == t - p.grace_period_start >= GracePeriodDuration - 2

GraceElapsed(p, t) == t - p.grace_period_start >= GracePeriodDuration

\* Two or more hands, with the periodic counter cleared as well.
TwoHandsStepResetsCounter(p) ==
    [p |-> [p EXCEPT !.palm_detection_state = "TWO_HANDS",
                     !.periodic_check_counter = 0],
     val |-> FALSE]

\* current_hand_count >= 2: only the state is written.
TwoHandsStep(p) ==
    [p |-> [p EXCEPT !.palm_detection_state = "TWO_HANDS"], val |-> FALSE]

\* The first single hand, with the grace start left as it was.
StartSearchingKeepsStart(p, t) ==
    [p |-> [p EXCEPT !.palm_detection_state = "ONE_HAND_SEARCHING"],
     val |-> TRUE]

\* One hand seen in NO_HANDS: the grace period starts at current_time.
StartSearching(p, t) ==
    [p |-> [p EXCEPT !.palm_detection_state = "ONE_HAND_SEARCHING",
                     !.grace_period_start = t],
     val |-> TRUE]

\* The result: the params and whether detection is required.
SmartPalmDetectionStateMachine(p, t, current_hand_count) ==
    LET current_state == p.palm_detection_state IN
    IF current_hand_count = 0
    THEN [p |-> [p EXCEPT !.palm_detection_state = "NO_HANDS"], val |-> TRUE]
    ELSE IF current_hand_count = 1
    THEN IF current_state = "NO_HANDS"
         THEN StartSearching(p, t)
         ELSE IF current_state = "ONE_HAND_SEARCHING"
         THEN IF GraceElapsed(p, t)
              THEN [p |-> [p EXCEPT !.palm_detection_state = "ONE_HAND_STABLE"],
                    val |-> FALSE]
              ELSE [p |-> p, val |-> TRUE]
         ELSE IF current_state = "ONE_HAND_STABLE"
         THEN IF p.periodic_check_counter + 1 >= PeriodicCheckInterval
              THEN [p |-> [p EXCEPT !.periodic_check_counter = 0], val |-> TRUE]
              ELSE [p |-> [p EXCEPT !.periodic_check_counter = @ + 1], val |-> FALSE]
         ELSE [p |-> p, val |-> FALSE]
    ELSE TwoHandsStep(p)

(***************************************************************************)
(* ApplicationModeManager.process_application_modes                        *)
(***************************************************************************)
\* A derivation of the ids that takes every hand for a right hand.
DetectedGesturesAnyHand(region) ==
    (IF region.gesture_type = "index_only" THEN <<"right_index_bent">>
     ELSE IF region.gesture_type = "index_middle_both" THEN <<"right_index_middle_bent">>
     ELSE <<>>)
    \o
    (IF region.gesture_name = "Closed_Fist" THEN <<"fist_gesture">>
     ELSE IF region.gesture_name = "Open_Palm" THEN <<"open_palm_gesture">>
     ELSE IF region.gesture_name = "ILoveYou" THEN <<"iloveyou_gesture">>
     ELSE <<>>)

\* detected_gestures: at most one angle-based id, then at most one static id.
DetectedGestures(region) ==
    (IF region.gesture_type = "index_only"
     THEN <<HandType(region) \o "_index_bent">>
     ELSE IF region.gesture_type = "index_middle_both"
     THEN <<HandType(region) \o "_index_middle_bent">>
     ELSE <<>>)
    \o
    (IF region.gesture_name = "Closed_Fist" THEN <<"fist_gesture">>
     ELSE IF region.gesture_name = "Open_Palm" THEN <<"open_palm_gesture">>
     ELSE IF region.gesture_name = "ILoveYou" THEN <<"iloveyou_gesture">>
     ELSE <<>>)

Reverse(s) == [i \in 1..Len(s) |-> s[Len(s) + 1 - i]]

\* A loop over the detected ids that ends at the first id whose execution
\* returns False.
RECURSIVE DispatchAllStopAtFailure(_, _, _, _, _, _)
DispatchAllStopAtFailure(am, t, ids, gestures, raises, k) ==
    IF k > Len(ids) THEN [am |-> am, eff |-> <<>>]
    ELSE IF ids[k] \notin DOMAIN gestures
    THEN DispatchAllStopAtFailure(am, t, ids, gestures, raises, k + 1)
    ELSE LET r == ExecuteApplicationGesture(am, t, ids[k], gestures[ids[k]], raises[k])
             rest == DispatchAllStopAtFailure(r.am, t, ids, gestures, raises, k + 1)
         IN  IF r.val THEN [am |-> rest.am, eff |-> r.eff \o rest.eff]
             ELSE [am |-> r.am, eff |-> r.eff]

\* for gesture_id in set(detected_gestures): the ids present in the mode's
\* binding map are executed one after the other; raises[k] says whether the
\* effector call of the k-th id raises.
RECURSIVE DispatchAll(_, _, _, _, _, _)
DispatchAll(am, t, ids, gestures, raises, k) ==
    IF k > Len(ids) THEN [am |-> am, eff |-> <<>>]
    ELSE IF ids[k] \notin DOMAIN gestures
    THEN DispatchAll(am, t, ids, gestures, raises, k + 1)
    ELSE LET r == ExecuteApplicationGesture(am, t, ids[k], gestures[ids[k]], raises[k])
             rest == DispatchAll(r.am, t, ids, gestures, raises, k + 1)
         IN  [am |-> rest.am, eff |-> r.eff \o rest.eff]

\* A dispatch that runs the continuous controller for either hand.
ProcessApplicationModesAnyHand(am, p, t, region, swap, raises) ==
    IF ~region.landmarks THEN [am |-> am, p |-> p, eff |-> <<>>, raised |-> FALSE]
    ELSE
    LET a1 == HandleBrowserModeIloveyou(am, t, region)
        current_mode_key == a1.current_mode
    IN  IF current_mode_key \notin Modes \/ ~a1.enabled[current_mode_key]
        THEN [am |-> a1, p |-> p, eff |-> <<>>, raised |-> FALSE]
        ELSE
        LET ids == IF swap THEN Reverse(DetectedGestures(region))
                   ELSE DetectedGestures(region)
            d == DispatchAll(a1, t, ids, a1.gestures[current_mode_key], raises, 1)
            c == IF current_mode_key = "browser_mode"
                 THEN IF d.am.browser_right_hand_mode = "cursor"
                      THEN HandleCursorControl(p, region, TRUE, raises[3])
                      ELSE HandleScrollControl(p, t, region, TRUE, raises[3])
                 ELSE [p |-> p, eff |-> <<>>]
        IN  [am |-> d.am, p |-> c.p, eff |-> d.eff \o c.eff, raised |-> FALSE]

\* The result: the config object, the params, the effector calls and whether
\* an exception left the method.  swap is the iteration order of the set of
\* detected ids; raises[1], raises[2] belong to the dispatched ids and
\* raises[3] to the continuous controller.
ProcessApplicationModes(am, p, t, region, swap, raises) ==
    IF ~region.landmarks THEN [am |-> am, p |-> p, eff |-> <<>>, raised |-> FALSE]
    ELSE
    LET a1 == HandleBrowserModeIloveyou(am, t, region)
        current_mode_key == a1.current_mode
    IN  IF current_mode_key = "disabled"
        THEN [am |-> a1, p |-> p, eff |-> <<>>, raised |-> FALSE]
        ELSE IF Getattr(current_mode_key) = None
        THEN [am |-> a1, p |-> p, eff |-> <<>>, raised |-> FALSE]
        ELSE IF Getattr(current_mode_key) = "other"
        THEN [am |-> a1, p |-> p, eff |-> <<>>, raised |-> TRUE]
        ELSE IF ~a1.enabled[current_mode_key]
        THEN [am |-> a1, p |-> p, eff |-> <<>>, raised |-> FALSE]
        ELSE
        LET ids == IF swap THEN Reverse(DetectedGestures(region))
                   ELSE DetectedGestures(region)
            d == DispatchAll(a1, t, ids, a1.gestures[current_mode_key], raises, 1)
            c == IF current_mode_key = "browser_mode" /\ HandType(region) = "right"
                 THEN IF d.am.browser_right_hand_mode = "cursor"
                      THEN HandleCursorControl(p, region, TRUE, raises[3])
                      ELSE IF d.am.browser_right_hand_mode = "scroll"
                      THEN HandleScrollControl(p, t, region, TRUE, raises[3])
                      ELSE [p |-> p, eff |-> <<>>]
                 ELSE [p |-> p, eff |-> <<>>]
        IN  [am |-> d.am, p |-> c.p, eff |-> d.eff \o c.eff, raised |-> FALSE]

(***************************************************************************)
(* Construction                                                            *)
(***************************************************************************)
Slots == {0, 1}            \* region_idx of the regions of a frame

\* get_legacy_params_dict: the params dict of a freshly initialised engine.
FreshParams ==
    [palm_detection_state |-> "NO_HANDS",
     grace_period_start |-> 0,
     periodic_check_counter |-> 0,
     scroll_state |-> InitialScrollState,
     previous_cursor_pos |-> None,
     previous_frame_processed_regions |-> <<>>,
     gesture_history |-> [i \in Slots |-> <<>>],
     enable_cursor_control |-> FALSE,
     enable_scroll_control |-> FALSE,
     scroll_hand_preference |-> "any",
     always_run_palm_detection |-> FALSE,
     show_landmarks |-> TRUE,
     show_static_gestures |-> TRUE]

\* CompleteGestureEngine.__init__
\* snapshot_mode is self.app_modes['current_mode'], the mode held by the
\* dict that initialize() takes from the configuration (None before).
NewEngine ==
    [running |-> FALSE, paused |-> FALSE, frame_count |-> 0, cap |-> FALSE,
     snapshot_mode |-> None]

Ret(op, arg, val) == [op |-> op, arg |-> arg, val |-> val]

\* The models in the order initialize_models loads them.
ModelOrder ==
    <<"palm_detection", "hand_landmarks", "gesture_embedder", "gesture_classifier">>

ModelNames == {ModelOrder[i] : i \in 1..Len(ModelOrder)}

\* ModelManager.__init__: nothing compiled, the lock free. compiled_models[m]
\* is 0 while the dict has no entry for m and otherwise tells which load of
\* m stored the handle the dict holds.
NewModelManager ==
    [initialized |-> FALSE, compiled_models |-> [m \in ModelNames |-> 0],
     lock |-> None]

\* The threads of the application: the worker running the frame loop and the
\* user-interface thread.
Threads == {"worker", "ui"}

Idle == [at |-> "idle"]

AllIdle == [th \in Threads |-> Idle]

NoTrace == [on |-> TRUE, out |-> <<>>]

Init ==
    /\ now = StartTime
    /\ app_modes = DefaultAppModes
    /\ params = FreshParams
    /\ engine = NewEngine
    /\ effector = <<>>
    /\ ret = Ret("init", None, None)
    /\ trace = NoTrace
    /\ model_manager = NewModelManager
    /\ pc = AllIdle

\* time.time() is read later.
Tick(limit) ==
    /\ now < StartTime + limit
    /\ now' = now + 1
    /\ ret' = Ret("tick", None, None)
    /\ effector' = <<>>
    /\ UNCHANGED <<app_modes, params, engine, trace, model_manager, pc>>

(***************************************************************************)
(* The dispatcher on its own: _execute_application_gesture called with a   *)
(* gesture id and a binding.                                               *)
(***************************************************************************)
DispatchIds == {"right_index_bent", "fist_gesture"}

BindingSet ==
    {Binding("key_press", <<"space">>, "", KeyPressCooldown),
     Binding("key_press", <<"ctrl", "s">>, "", SkipCooldown),
     Binding("key_press", <<>>, "", SkipCooldown),
     Binding("mouse_click", <<>>, "left", ClickCooldown),
     Binding("mouse_click", <<>>, "primary", ClickCooldown),
     Binding("mouse_click", <<>>, "side", ClickCooldown),
     Binding("double_click", <<>>, "left", SkipCooldown),
     Binding("key_press", <<"m">>, "", 0)}

\* The scripted scenario: the binding of cooldown 0.6 s activated at
\* t = 0, 0.05 and 0.7 s after the first clock reading.
ScriptGid == "right_index_bent"
ScriptCfg == Binding("key_press", <<"space">>, "", KeyPressCooldown)
ScriptTimes == <<0, 1, 14>>

FollowScript(gid, cfg, raises, val) ==
    IF trace.on /\ Len(trace.out) < Len(ScriptTimes)
       /\ gid = ScriptGid /\ cfg = ScriptCfg /\ ~raises
       /\ now = StartTime + ScriptTimes[Len(trace.out) + 1]
    THEN [trace EXCEPT !.out = Append(@, val)]
    ELSE IF gid = ScriptGid /\ Len(trace.out) < Len(ScriptTimes)
    THEN [trace EXCEPT !.on = FALSE]
    ELSE trace

Execute(gid, cfg, raises) ==
    LET r == ExecuteApplicationGesture(app_modes, now, gid, cfg, raises) IN
    /\ app_modes' = r.am
    /\ effector' = r.eff
    /\ ret' = Ret("execute", [gid |-> gid, cfg |-> cfg], r.val)
    /\ trace' = FollowScript(gid, cfg, raises, r.val)
    /\ UNCHANGED <<now, params, engine, model_manager, pc>>

NextDispatch ==
    \/ Tick(MaxElapsed)
    \/ \E gid \in DispatchIds, cfg \in BindingSet, raises \in BOOLEAN :
           Execute(gid, cfg, raises)

SpecDispatch == Init /\ [][NextDispatch]_vars

\* C1: an activation of a gesture id inside the binding's cooldown makes no
\* effector call, returns False and leaves the gesture-timing map as it was;
\* an invocation that succeeds happens at least the cooldown after the
\* previous firing recorded for the id, makes exactly one effector call and
\* records now as the id's last firing.
C1_CooldownGating ==
    [][ret'.op = "execute" =>
        LET gid == ret'.arg.gid
            cd == ret'.arg.cfg.cooldown
            old == IF gid \in DOMAIN app_modes.gesture_timings
                   THEN app_modes.gesture_timings[gid] ELSE 0
        IN  /\ now' - old < cd =>
                  /\ effector' = <<>>
                  /\ ret'.val = FALSE
                  /\ app_modes'.gesture_timings = app_modes.gesture_timings
            /\ ret'.val = TRUE =>
                  /\ now' - old >= cd
                  /\ Len(effector') = 1 /\ effector'[1].ok /\ effector'[1].gid = gid
                  /\ gid \in DOMAIN app_modes'.gesture_timings
                  /\ app_modes'.gesture_timings[gid] = now'
                  /\ \A g \in DOMAIN app_modes.gesture_timings :
                         g # gid => app_modes'.gesture_timings[g] = app_modes.gesture_timings[g]
            /\ (effector' # <<>> /\ ~effector'[1].ok) =>
                  app_modes'.gesture_timings = app_modes.gesture_timings]_vars

\* An id that fired before is activated again inside its cooldown and suppressed.
C1_Witness ==
    /\ ret.op = "execute"
    /\ ret.val = FALSE
    /\ ret.arg.cfg = ScriptCfg
    /\ ret.arg.gid \in DOMAIN app_modes.gesture_timings
    /\ app_modes.gesture_timings[ret.arg.gid] >= StartTime
    /\ now - app_modes.gesture_timings[ret.arg.gid] < ret.arg.cfg.cooldown
    /\ effector = <<>>

\* C2: with cooldown 0.6 s and no earlier firing, activations at t = 0,
\* 0.05 and 0.7 s are fired, suppressed, fired.
C2_Scenario ==
    trace.on =>
        /\ Len(trace.out) >= 1 => trace.out[1] = TRUE
        /\ Len(trace.out) >= 2 => trace.out[2] = FALSE
        /\ Len(trace.out) >= 3 => trace.out[3] = TRUE

C2_Witness == trace.on /\ Len(trace.out) = 3 /\ ret.op = "execute"

(***************************************************************************)
(* Mode switching on its own: switch_mode called from the default          *)
(* configuration with any name.                                            *)
(***************************************************************************)
Switch(mode_name) ==
    LET r == SwitchMode(app_modes, now, mode_name) IN
    /\ app_modes' = r.am
    /\ effector' = <<>>
    /\ ret' = Ret("switch_mode", mode_name, r.val)
    /\ UNCHANGED <<now, params, engine, trace, model_manager, pc>>

NextMode ==
    \/ Tick(MaxElapsedMode)
    \/ \E mode_name \in ModeArgs : Switch(mode_name)

SpecMode == Init /\ [][NextMode]_vars

\* C5: after a switch that succeeded at t (last_mode_switch = t), a switch
\* attempt less than mode_switch_cooldown later returns False and leaves the
\* current mode, every enabled flag and last_mode_switch unchanged.
C5_SwitchCooldown ==
    [][(/\ ret'.op = "switch_mode"
        /\ app_modes.last_mode_switch >= StartTime
        /\ now' - app_modes.last_mode_switch < ModeSwitchCooldown)
       => /\ ret'.val = "False"
          /\ app_modes'.current_mode = app_modes.current_mode
          /\ app_modes'.enabled = app_modes.enabled
          /\ app_modes'.last_mode_switch = app_modes.last_mode_switch]_vars

\* A second attempt, to another mode, is rejected inside the cooldown.
C5_Witness ==
    /\ ret.op = "switch_mode"
    /\ ret.val = "False"
    /\ app_modes.last_mode_switch >= StartTime
    /\ now - app_modes.last_mode_switch < ModeSwitchCooldown
    /\ ret.arg # app_modes.current_mode
    /\ app_modes.current_mode \in Modes

\* C6: the current mode is 'disabled' or a registered mode, and exactly the
\* current mode has its enabled flag set.
C6_ExactlyOneMode ==
    /\ app_modes.current_mode \in Modes \cup {"disabled"}
    /\ \A m \in Modes : app_modes.enabled[m] <=> (m = app_modes.current_mode)

(***************************************************************************)
(* The redetection scheduler on its own.                                   *)
(***************************************************************************)
MaxHands == 2

\* The scripted scenario: hand counts 0,1,1,1,1,1 sampled every 0.1 s.
SchedCounts == <<0, 1, 1, 1, 1, 1>>
SchedTimes == <<0, 2, 4, 6, 8, 10>>

FollowSched(c, val) ==
    IF trace.on /\ Len(trace.out) < Len(SchedCounts)
       /\ c = SchedCounts[Len(trace.out) + 1]
       /\ now = StartTime + SchedTimes[Len(trace.out) + 1]
    THEN [trace EXCEPT !.out = Append(@, val)]
    ELSE IF Len(trace.out) < Len(SchedCounts)
    THEN [trace EXCEPT !.on = FALSE]
    ELSE trace

SchedStep(c) ==
    LET r == SmartPalmDetectionStateMachine(params, now, c) IN
    /\ params' = r.p
    /\ effector' = <<>>
    /\ ret' = Ret("sched", c, r.val)
    /\ trace' = FollowSched(c, r.val)
    /\ UNCHANGED <<now, app_modes, engine, model_manager, pc>>

NextSched ==
    \/ Tick(MaxElapsed)
    \/ \E c \in 0..MaxHands : SchedStep(c)

SpecSched == Init /\ [][NextSched]_vars

\* C3 as stated: the scenario yields true,true,true,true,true,false.
C3_Original ==
    (trace.on /\ Len(trace.out) = 6) =>
        trace.out = <<TRUE, TRUE, TRUE, TRUE, TRUE, FALSE>>

\* C3 as amended: the grace period starts at the first one-hand sample
\* (t = 0.1 s), so at t = 0.5 s only 0.4 s have elapsed and every one of the
\* six samples requires detection.
C3_Amended ==
    trace.on => \A i \in 1..Len(trace.out) : trace.out[i] = TRUE

C3_Witness ==
    /\ trace.on /\ Len(trace.out) = 6
    /\ params.palm_detection_state = "ONE_HAND_SEARCHING"
    /\ now - params.grace_period_start = 8

(***************************************************************************)
(* The scroll controller on its own: handle_scroll_control called with a   *)
(* region.                                                                 *)
(***************************************************************************)
MaxElapsedScroll == 5

YValues == {440, 469, 500, 531, 560}

ScrollRegions ==
    [landmarks : {TRUE}, hand : {"left", "right"}, gesture_type : {"none"},
     gesture_name : {None}, tip : {<<5, 5>>},
     finger_distance : {50, 150}, center_y : YValues]

Scroll(region, force_enable, raises) ==
    LET r == HandleScrollControl(params, now, region, force_enable, raises) IN
    /\ params' = r.p
    /\ effector' = r.eff
    /\ ret' = Ret("scroll", [y |-> region.center_y, hand |-> region.hand,
                             pinched |-> region.finger_distance < ScrollThreshold,
                             force |-> force_enable], None)
    /\ UNCHANGED <<now, app_modes, engine, trace, model_manager, pc>>

NextScroll ==
    \/ Tick(MaxElapsedScroll)
    \/ \E region \in ScrollRegions, force_enable \in BOOLEAN, raises \in BOOLEAN :
           Scroll(region, force_enable, raises)

SpecScroll == Init /\ [][NextScroll]_vars

\* C4: a locked direction stays as it is until the grip is released; the
\* direction is locked on the first gripped frame whose |delta| exceeds 0.03,
\* to the direction of that delta; and a scroll tick is emitted only on a
\* frame whose instantaneous direction (down if delta > 0, else up) is the
\* locked direction.
C4_DirectionLock ==
    [][ret'.op = "scroll" =>
        LET ss == params.scroll_state
            st == params'.scroll_state
            delta == ret'.arg.y - ss.start_pos
            dir == IF delta > 0 THEN "down" ELSE "up"
        IN  /\ ss.locked_direction # None =>
                  \/ st.locked_direction = ss.locked_direction
                  \/ /\ ~ret'.arg.pinched
                     /\ ~st.is_scrolling
                     /\ st.locked_direction = None
            /\ (ss.locked_direction = None /\ st.locked_direction # None) =>
                  /\ ss.is_scrolling /\ ret'.arg.pinched
                  /\ (delta > DirectionLockThreshold \/ -delta > DirectionLockThreshold)
                  /\ st.locked_direction = dir
            /\ (/\ ss.is_scrolling /\ ss.locked_direction = None /\ ret'.arg.pinched
                /\ ret'.arg.force /\ ret'.arg.hand = ss.active_hand
                /\ (delta > DirectionLockThreshold \/ -delta > DirectionLockThreshold))
                  => st.locked_direction = dir
            /\ effector' # <<>> =>
                  /\ ss.is_scrolling
                  /\ st.locked_direction # None
                  /\ st.locked_direction = dir]_vars

\* Locked "down", then a gripped frame of the same hand above the start
\* position (instantaneous direction "up"): no tick, the lock stays.
C4_Witness ==
    /\ ret.op = "scroll"
    /\ ret.arg.pinched /\ ret.arg.force
    /\ params.scroll_state.is_scrolling
    /\ params.scroll_state.locked_direction = "down"
    /\ ret.arg.hand = params.scroll_state.active_hand
    /\ ret.arg.y < params.scroll_state.start_pos - DirectionLockThreshold
    /\ effector = <<>>

(***************************************************************************)
(* CompleteGestureEngine._apply_gesture_smoothing                          *)
(***************************************************************************)
\* gesture_counts[gest]
CountOf(h, g) == Cardinality({i \in 1..Len(h) : h[i] = g})

\* The position at which gest becomes a key of gesture_counts.
FirstIndex(h, g) == CHOOSE i \in 1..Len(h) : h[i] = g /\ \A j \in 1..(i - 1) : h[j] # g

\* max(gesture_counts, key=...): the first key, in insertion order, whose
\* count is the largest.
MostCommonGesture(h) ==
    CHOOSE g \in {h[i] : i \in 1..Len(h)} :
        \A g2 \in {h[i] : i \in 1..Len(h)} :
            \/ CountOf(h, g) > CountOf(h, g2)
            \/ CountOf(h, g) = CountOf(h, g2) /\ FirstIndex(h, g) <= FirstIndex(h, g2)

\* A vote that is won with half of the buffer.
MajorityReachedHalf(h, g) == CountOf(h, g) >= Len(h) \div 2

MajorityReached(h, g) == CountOf(h, g) >= Len(h) \div 2 + 1

\* history.append(name); pop(0) beyond gesture_smoothing_frames
PushHistory(h, name) ==
    LET h1 == Append(h, name) IN
    IF Len(h1) > GestureSmoothingFrames THEN Tail(h1) ELSE h1

\* The result: the params and the region's gesture_name after the call
\* (gesture_name is None when the region has no such attribute).
ApplyGestureSmoothing(p, gesture_name, region_idx) ==
    IF gesture_name = None THEN [p |-> p, name |-> None]
    ELSE LET h == PushHistory(p.gesture_history[region_idx], gesture_name)
             p1 == [p EXCEPT !.gesture_history[region_idx] = h]
         IN  IF Len(h) >= 3 /\ MajorityReached(h, MostCommonGesture(h))
             THEN [p |-> p1, name |-> MostCommonGesture(h)]
             ELSE [p |-> p1, name |-> gesture_name]

(***************************************************************************)
(* Majority-vote smoothing on its own.                                     *)
(***************************************************************************)
\* Static labels of the classifier ("A" and "B" of the examples).
Labels == {"Closed_Fist", "Open_Palm"}

Smooth(region_idx, gesture_name) ==
    LET r == ApplyGestureSmoothing(params, gesture_name, region_idx) IN
    /\ params' = r.p
    /\ effector' = <<>>
    /\ ret' = Ret("smooth", [idx |-> region_idx, raw |-> gesture_name], r.name)
    /\ UNCHANGED <<now, app_modes, engine, trace, model_manager, pc>>

NextSmooth ==
    \E region_idx \in Slots, gesture_name \in Labels \cup {None} :
        Smooth(region_idx, gesture_name)

SpecSmooth == Init /\ [][NextSmooth]_vars

\* C7: the raw label is appended to the slot's buffer, the oldest entry being
\* dropped beyond gesture_smoothing_frames entries, and no other buffer
\* changes; the output is the label held by more than half of the buffer when
\* the buffer has at least 3 entries and such a label exists, and the raw
\* label otherwise.  <<A,A,A,A,B,B>> gives A and <<A,A,B,A,B,A>> gives A.
C7_MajorityVote ==
    [][(ret'.op = "smooth" /\ ret'.arg.raw # None) =>
        LET i == ret'.arg.idx
            raw == ret'.arg.raw
            old == params.gesture_history[i]
            h == params'.gesture_history[i]
            winners == {g \in Labels :
                          2 * Cardinality({k \in 1..Len(h) : h[k] = g}) > Len(h)}
        IN  /\ h = IF Len(old) < GestureSmoothingFrames
                   THEN old \o <<raw>>
                   ELSE SubSeq(old, 2, Len(old)) \o <<raw>>
            /\ \A j \in Slots \ {i} :
                   params'.gesture_history[j] = params.gesture_history[j]
            /\ (Len(h) >= 3 /\ winners # {}) => ret'.val \in winners
            /\ (Len(h) < 3 \/ winners = {}) => ret'.val = raw
            /\ h = <<"Closed_Fist", "Closed_Fist", "Closed_Fist", "Closed_Fist",
                     "Open_Palm", "Open_Palm">> => ret'.val = "Closed_Fist"
            /\ h = <<"Closed_Fist", "Closed_Fist", "Open_Palm", "Closed_Fist",
                     "Open_Palm", "Closed_Fist">> => ret'.val = "Closed_Fist"]_vars

\* The buffer <<A,A,A,A,B,B>>: the latest raw label is B, the output is A.
C7_Witness ==
    /\ ret.op = "smooth"
    /\ ret.arg.raw = "Open_Palm"
    /\ ret.val = "Closed_Fist"
    /\ params.gesture_history[ret.arg.idx] =
           <<"Closed_Fist", "Closed_Fist", "Closed_Fist", "Closed_Fist",
             "Open_Palm", "Open_Palm">>

(***************************************************************************)
(* CompleteGestureEngine._smooth_detection_boxes                           *)
(***************************************************************************)
\* A detection box pd_box is <<x, y, w, h>>, in thousandths of the frame.
Min(a, b) == IF a < b THEN a ELSE b
Max(a, b) == IF a > b THEN a ELSE b

\* calculate_iou(box1, box2) = IouInter / IouUnion
IouInter(a, b) ==
    Max(0, Min(a[1] + a[3], b[1] + b[3]) - Max(a[1], b[1]))
      * Max(0, Min(a[2] + a[4], b[2] + b[4]) - Max(a[2], b[2]))

IouUnion(a, b) == a[3] * a[4] + b[3] * b[4] - IouInter(a, b)

DetectionSmoothingAlphaTenths == 7   \* detection_smoothing_alpha = 0.7
IouMatchPercent == 15                \* max_iou_for_smoothing > 0.15

\* The loop over the previous regions: the index of the first previous
\* region whose IOU with box is the largest and above 0, or 0 if none.
RECURSIVE BestMatchPrev(_, _, _, _)
BestMatchPrev(box, prev, k, best) ==
    IF k > Len(prev) THEN best
    ELSE LET n == IouInter(box, prev[k].pd_box)
             d == IouUnion(box, prev[k].pd_box)
             bn == IF best = 0 THEN 0 ELSE IouInter(box, prev[best].pd_box)
             bd == IF best = 0 THEN 1 ELSE IouUnion(box, prev[best].pd_box)
         IN  IF n * bd > bn * d
             THEN BestMatchPrev(box, prev, k + 1, k)
             ELSE BestMatchPrev(box, prev, k + 1, best)

\* A blend with the weights of the two boxes exchanged.
BlendSwapped(P, N) ==
    [i \in 1..4 |-> ((10 - DetectionSmoothingAlphaTenths) * P[i]
                      + DetectionSmoothingAlphaTenths * N[i]) \div 10]

\* alpha * prev + (1 - alpha) * new, coordinate by coordinate
Blend(P, N) ==
    [i \in 1..4 |-> (DetectionSmoothingAlphaTenths * P[i]
                      + (10 - DetectionSmoothingAlphaTenths) * N[i]) \div 10]

\* A match that accepts any overlap.
MatchedAnyOverlap(box, P) == IouInter(box, P) > 0

Matched(box, P) == 100 * IouInter(box, P) > IouMatchPercent * IouUnion(box, P)

\* The new regions after the call (the previous regions are not written).
SmoothDetectionBoxes(prev, regions_nms) ==
    IF regions_nms = <<>> \/ prev = <<>> THEN regions_nms
    ELSE [k \in 1..Len(regions_nms) |->
            LET box == regions_nms[k].pd_box
                best == BestMatchPrev(box, prev, 1, 0)
            IN  IF best # 0 /\ Matched(box, prev[best].pd_box)
                THEN [regions_nms[k] EXCEPT !.pd_box = Blend(prev[best].pd_box, box)]
                ELSE regions_nms[k]]

(***************************************************************************)
(* Tracker smoothing on its own: any previous regions, any new detections. *)
(***************************************************************************)
BoxSet == {<<0, 0, 40, 40>>, <<10, 0, 40, 40>>, <<30, 30, 40, 40>>, <<100, 100, 40, 40>>}

TrackRegion(box) == [pd_box |-> box, lm_ok |-> TRUE]

RegionLists == {<<>>} \cup {<<TrackRegion(a)>> : a \in BoxSet}
                 \cup {<<TrackRegion(ab[1]), TrackRegion(ab[2])>> :
                          ab \in {x \in BoxSet \X BoxSet : x[1] # x[2]}}

InitTrack ==
    /\ now = StartTime
    /\ app_modes = DefaultAppModes
    /\ \E prev \in RegionLists :
           params = [FreshParams EXCEPT !.previous_frame_processed_regions = prev]
    /\ engine = NewEngine
    /\ effector = <<>>
    /\ ret = Ret("init", <<>>, <<>>)
    /\ trace = NoTrace
    /\ model_manager = NewModelManager
    /\ pc = AllIdle

Track(regions_nms) ==
    /\ ret' = Ret("track", regions_nms,
                  SmoothDetectionBoxes(params.previous_frame_processed_regions, regions_nms))
    /\ effector' = <<>>
    /\ UNCHANGED <<now, app_modes, params, engine, trace, model_manager, pc>>

NextTrack == \E regions_nms \in RegionLists : Track(regions_nms)

SpecTrack == InitTrack /\ [][NextTrack]_vars

\* C8: each new region is compared with the previous regions; when the
\* largest IOU exceeds 0.15 every coordinate of its box becomes
\* 0.7 * P + 0.3 * N for a previous box P of largest IOU, otherwise the box
\* stays N; the previous regions are not modified.
C8_TrackerSmoothing ==
    [][ret'.op = "track" =>
        LET prev == params.previous_frame_processed_regions
            new == ret'.arg
            out == ret'.val
            IouGt(a, b, c) ==      \* IOU(a, b) > IOU(a, c)
                IouInter(a, b) * IouUnion(a, c) > IouInter(a, c) * IouUnion(a, b)
            Best(N) == {j \in 1..Len(prev) :
                          \A j2 \in 1..Len(prev) : ~IouGt(N, prev[j2].pd_box, prev[j].pd_box)}
            Over(N, j) == 100 * IouInter(N, prev[j].pd_box) > 15 * IouUnion(N, prev[j].pd_box)
        IN  /\ params'.previous_frame_processed_regions = prev
            /\ Len(out) = Len(new)
            /\ \A k \in 1..Len(new) :
                 LET N == new[k].pd_box IN
                 IF \E j \in Best(N) : Over(N, j)
                 THEN \E j \in Best(N) :
                        \A i \in 1..4 :
                            10 * out[k].pd_box[i] = 7 * prev[j].pd_box[i] + 3 * N[i]
                 ELSE out[k].pd_box = N]_vars

\* A detection that overlaps one previous box by more than 0.15 and another
\* one by less: the first is blended in, and a second detection in the same
\* frame matches nothing and keeps its box.
C8_Witness ==
    /\ ret.op = "track"
    /\ Len(ret.arg) = 2 /\ Len(params.previous_frame_processed_regions) = 2
    /\ ret.arg[1].pd_box = <<10, 0, 40, 40>>
    /\ ret.val[1].pd_box = <<3, 0, 40, 40>>
    /\ params.previous_frame_processed_regions[1].pd_box = <<30, 30, 40, 40>>
    /\ params.previous_frame_processed_regions[2].pd_box = <<0, 0, 40, 40>>
    /\ ret.arg[2].pd_box = <<100, 100, 40, 40>>
    /\ ret.val[2].pd_box = <<100, 100, 40, 40>>

(***************************************************************************)
(* CompleteGestureEngine.get_frame_with_complete_processing                *)
(***************************************************************************)
\* A region kept in previous_frame_processed_regions is [pd_box, lm_ok]:
\* its detection box and whether its landmark score reaches
\* landmark_score_for_palm_redetection_threshold, the two attributes the next
\* frame reads.  An observation is what the models return for one region of
\* this frame: fails (the crop or a model call raises), lm_ok, hand,
\* gesture_type, gesture_name (the raw static label), tip, finger_distance,
\* center_y.

\* should_run_palm_detection(previous regions, threshold)
ShouldRunPalmDetection(prev) == \E k \in 1..Len(prev) : ~prev[k].lm_ok

\* The region object after lm_postprocess, gesture smoothing and
\* process_finger_detection.
Processed(region, o, name) ==
    [pd_box |-> region.pd_box, lm_ok |-> o.lm_ok, landmarks |-> TRUE,
     hand |-> o.hand, gesture_type |-> o.gesture_type, gesture_name |-> name,
     tip |-> o.tip, finger_distance |-> o.finger_distance, center_y |-> o.center_y]

Stored(region) == [pd_box |-> region.pd_box, lm_ok |-> region.lm_ok]

\* The result of the landmark stage: the region processed at position k
\* with label name, followed by what the rest of the loop gives.
LandmarksAppend(regions, obs, k, name, rest) ==
    [p |-> rest.p,
     processed |-> <<Processed(regions[k], obs[k], name)>> \o rest.processed,
     idx |-> <<k>> \o rest.idx]

\* A landmark stage in which the first failing region ends the loop.
RECURSIVE ProcessLandmarksStopAtFailure(_, _, _, _)
RECURSIVE LandmarksStopAtFailureRest(_, _, _, _)
LandmarksStopAtFailureRest(sm, regions, obs, k) ==
    LandmarksAppend(regions, obs, k, sm.name,
                    ProcessLandmarksStopAtFailure(sm.p, regions, obs, k + 1))

ProcessLandmarksStopAtFailure(p, regions, obs, k) ==
    IF k > Len(regions) \/ obs[k].fails THEN [p |-> p, processed |-> <<>>, idx |-> <<>>]
    ELSE LandmarksStopAtFailureRest(ApplyGestureSmoothing(p, obs[k].gesture_name, k - 1),
                                    regions, obs, k)

\* _process_landmarks_and_gestures from region k on: the params, the
\* processed regions and their positions in the list of regions.
RECURSIVE ProcessLandmarksAndGestures(_, _, _, _)

\* Lines 387-391 for region k, sm being the outcome of its smoothing, and
\* the loop from region k + 1 on.
RECURSIVE LandmarksRest(_, _, _, _)
LandmarksRest(sm, regions, obs, k) ==
    LandmarksAppend(regions, obs, k, sm.name,
                    ProcessLandmarksAndGestures(sm.p, regions, obs, k + 1))

ProcessLandmarksAndGestures(p, regions, obs, k) ==
    IF k > Len(regions) \/ ~p.show_landmarks THEN [p |-> p, processed |-> <<>>, idx |-> <<>>]
    ELSE IF obs[k].fails THEN ProcessLandmarksAndGestures(p, regions, obs, k + 1)
    ELSE LandmarksRest(IF p.show_static_gestures
                       THEN ApplyGestureSmoothing(p, obs[k].gesture_name, k - 1)
                       ELSE [p |-> p, name |-> None],
                       regions, obs, k)

\* for region in processed_regions: self._process_application_modes(region).
\* n counts the regions handed to the dispatcher.
RECURSIVE DispatchRegions(_, _, _, _, _, _, _)

\* r is the outcome of the dispatch of a region, rest of the regions after it.
DispatchJoin(r, rest) ==
    [am |-> rest.am, p |-> rest.p, eff |-> r.eff \o rest.eff,
     raised |-> rest.raised, n |-> rest.n + 1]

RECURSIVE DispatchRest(_, _, _, _, _, _)
DispatchRest(r, t, regs, k, swap, raises) ==
    IF r.raised
    THEN [am |-> r.am, p |-> r.p, eff |-> r.eff, raised |-> TRUE, n |-> 1]
    ELSE DispatchJoin(r, DispatchRegions(r.am, r.p, t, regs, k + 1, swap, raises))

DispatchRegions(am, p, t, regs, k, swap, raises) ==
    IF k > Len(regs) THEN [am |-> am, p |-> p, eff |-> <<>>, raised |-> FALSE, n |-> 0]
    ELSE DispatchRest(ProcessApplicationModes(am, p, t, regs[k], swap, raises),
                      t, regs, k, swap, raises)

\* The regions of the previous frame are the objects processed when
\* detection does not run: the processed ones carry their new attributes.
InPlace(prev, processed, idx) ==
    [k \in 1..Len(prev) |->
        IF \E j \in 1..Len(idx) : idx[j] = k
        THEN Stored(processed[CHOOSE j \in 1..Len(idx) : idx[j] = k])
        ELSE prev[k]]

\* An except clause that still stores the processed regions and counts the frame.
FrameDegradedCounts(e, p, processed) ==
    [e |-> [e EXCEPT !.frame_count = @ + 1],
     p |-> [p EXCEPT !.previous_frame_processed_regions =
                         [k \in 1..Len(processed) |-> Stored(processed[k])]]]

\* The except clause of the frame: neither line 224 nor line 227 has run.
FrameDegraded(e, p, processed) == [e |-> e, p |-> p]

\* Lines 224-227: the processed regions become the previous regions, the
\* frame is counted.
FrameCompleted(e, p, processed) ==
    [e |-> [e EXCEPT !.frame_count = @ + 1],
     p |-> [p EXCEPT !.previous_frame_processed_regions =
                         [k \in 1..Len(processed) |-> Stored(processed[k])]]]

\* _render_complete_status_info reads app_modes['browser_mode']
\* ['right_hand_mode'], a key the dict of a mode does not have.
RenderRaises(e, abort) == abort = "render" \/ e.snapshot_mode = "browser_mode"

\* What a per-frame call reports: its status, whether detection ran, the
\* regions fed to the landmark stage, the processed regions and the number
\* of regions handed to the dispatcher.
FrameOutcome(status, need, fed, processed, n) ==
    [status |-> status, need |-> need, fed |-> fed,
     processed |-> processed, dispatched |-> n]

\* The frame ends with engine and params d after the dispatch dp.
FrameEnd(d, dp, status, need, fed, processed) ==
    [e |-> d.e, am |-> dp.am, p |-> d.p, eff |-> dp.eff,
     out |-> FrameOutcome(status, need, fed, processed, dp.n)]

\* Lines 215-233, dp being the outcome of the dispatch loop.
FrameAfterDispatch(e, dp, need, fed, processed, abort) ==
    IF dp.raised \/ RenderRaises(e, abort)
    THEN FrameEnd(FrameDegraded(e, dp.p, processed), dp, "degraded", need, fed, processed)
    ELSE FrameEnd(FrameCompleted(e, dp.p, processed), dp, "processed", need, fed, processed)

\* Lines 211-233, lm being the outcome of the landmark stage.
FrameAfterLandmarks(e, am, t, prev, need, fed, lm, abort, swap, raises) ==
    FrameAfterDispatch(e,
        DispatchRegions(am,
                        IF need THEN lm.p
                        ELSE [lm.p EXCEPT !.previous_frame_processed_regions =
                                             InPlace(prev, lm.processed, lm.idx)],
                        t, lm.processed, 1, swap, raises),
        need, fed, lm.processed, abort)

\* Lines 197-233, current being current_regions_for_processing and p the
\* params after the scheduler.
FrameAfterDetection(e, am, p, t, prev, need, current, obs, abort, swap, raises) ==
    IF abort = "rect" /\ current # <<>>
    THEN FrameEnd(FrameDegraded(e, p, <<>>),
                  [am |-> am, eff |-> <<>>, n |-> 0], "degraded", need, current, <<>>)
    ELSE FrameAfterLandmarks(e, am, t, prev, need, current,
                             ProcessLandmarksAndGestures(p, current, obs, 1),
                             abort, swap, raises)

\* Lines 187-233, need being need_palm_detection.
FrameAfterFallback(e, am, p, t, prev, need, detected, obs, abort, swap, raises) ==
    FrameAfterDetection(e, am, p, t, prev, need,
                        IF need THEN SmoothDetectionBoxes(prev, detected) ELSE prev,
                        obs, abort, swap, raises)

\* The fallback without the always-run flag.
FrameAfterSchedulerNoAlways(e, am, t, prev, sm, detected, obs, abort, swap, raises) ==
    FrameAfterFallback(e, am, sm.p, t, prev,
                       sm.val \/ ShouldRunPalmDetection(prev),
                       detected, obs, abort, swap, raises)

\* Lines 177-233, sm being the outcome of the scheduler.
FrameAfterScheduler(e, am, t, prev, sm, detected, obs, abort, swap, raises) ==
    FrameAfterFallback(e, am, sm.p, t, prev,
                       sm.val \/ sm.p.always_run_palm_detection
                              \/ ShouldRunPalmDetection(prev),
                       detected, obs, abort, swap, raises)

\* The body of the try block.  detected are the regions palm detection
\* returns if it runs, obs the observations of the regions processed, abort
\* the stage that raises ("none", "resize", "rect", "render").  The result:
\* engine, config object, params, effector calls and the frame's outcome.
FrameBody(e, am, p, t, detected, obs, abort, swap, raises) ==
    IF abort = "resize"
    THEN [e |-> e, am |-> am, p |-> p, eff |-> <<>>,
          out |-> FrameOutcome("degraded", FALSE, <<>>, <<>>, 0)]
    ELSE FrameAfterScheduler(e, am, t, p.previous_frame_processed_regions,
             SmartPalmDetectionStateMachine(p, t, Len(p.previous_frame_processed_regions)),
             detected, obs, abort, swap, raises)

(***************************************************************************)
(* The engine: start, pause, resume, stop, switch_mode and the per-frame   *)
(* call.                                                                   *)
(***************************************************************************)
MaxFrames == 2             \* per-frame calls of a run; a call takes one tick

\* initialize(): the params are rebuilt from the configuration; the camera
\* is opened unless the models or every camera index fail.
Initialize(e, am, init) ==
    [e |-> [e EXCEPT !.snapshot_mode = am.current_mode, !.cap = (init = "ok")],
     p |-> FreshParams]

\* start(): the result of initialize() is not looked at; the method returns
\* nothing.
StartEngine(e, am, p, init) ==
    LET i == IF e.cap THEN [e |-> e, p |-> p] ELSE Initialize(e, am, init)
    IN  [e |-> [i.e EXCEPT !.running = TRUE, !.paused = FALSE], p |-> i.p]

\* ret.val.reinit says whether start() called initialize().
Start(init) ==
    \E r \in {StartEngine(engine, app_modes, params, init)} :
        /\ engine' = r.e
        /\ params' = r.p
        /\ effector' = <<>>
        /\ ret' = Ret("start", init, [reinit |-> ~engine.cap])
        /\ UNCHANGED <<now, app_modes, trace, model_manager, pc>>

Pause ==
    /\ engine' = [engine EXCEPT !.paused = TRUE]
    /\ effector' = <<>>
    /\ ret' = Ret("pause", None, None)
    /\ UNCHANGED <<now, app_modes, params, trace, model_manager, pc>>

Resume ==
    /\ engine' = [engine EXCEPT !.paused = FALSE]
    /\ effector' = <<>>
    /\ ret' = Ret("resume", None, None)
    /\ UNCHANGED <<now, app_modes, params, trace, model_manager, pc>>

\* A stop that leaves the paused flag as it is.
StopEngineKeepsPaused(e) == [e EXCEPT !.running = FALSE, !.cap = FALSE]

\* stop(): cap.release(), cap = None
StopEngine(e) == [e EXCEPT !.running = FALSE, !.paused = FALSE, !.cap = FALSE]

Stop ==
    /\ engine' = StopEngine(engine)
    /\ effector' = <<>>
    /\ ret' = Ret("stop", None, None)
    /\ UNCHANGED <<now, app_modes, params, trace, model_manager, pc>>

\* What the models return for a region of the frame.
Obs(fails, lm_ok, hand, gesture_type, gesture_name) ==
    [fails |-> fails, lm_ok |-> lm_ok, hand |-> hand, gesture_type |-> gesture_type,
     gesture_name |-> gesture_name, tip |-> <<5, 5>>, finger_distance |-> 150,
     center_y |-> 500]

Failing == Obs(TRUE, TRUE, "right", "none", None)
Fist == Obs(FALSE, TRUE, "right", "index_only", "Closed_Fist")
LowScore == Obs(FALSE, FALSE, "left", "none", "Closed_Fist")

\* The observations of a frame, one for each region in order.
FrameObservations ==
    {<<Fist, Fist>>, <<Failing, Fist>>, <<Fist, Failing>>, <<Failing, Failing>>,
     <<Fist, LowScore>>}

FrameBoxes == <<(<<0, 0, 40, 40>>), (<<100, 100, 40, 40>>)>>

\* Palm detection returns no region (also when it raises), one or two.
FrameDetections ==
    {<<>>, <<TrackRegion(FrameBoxes[1])>>,
     <<TrackRegion(FrameBoxes[1]), TrackRegion(FrameBoxes[2])>>}

Aborts == {"none", "resize", "rect", "render"}

\* The names the interface switches to here: two modes and a name that is
\* an attribute of the configuration without being a mode.
FrameModes == {"media_mode", "browser_mode", "debug_mode"}

\* Whether the effector calls of a frame raise.
NoRaise == [k \in 1..3 |-> FALSE]
AllRaise == [k \in 1..3 |-> TRUE]

\* The effector of a frame; of the iteration orders of the set of detected
\* ids the frames take the first.
FrameDispatches ==
    {[swap |-> FALSE, raises |-> NoRaise], [swap |-> FALSE, raises |-> AllRaise]}

\* get_frame_with_complete_processing.  read_ok is the camera's answer.
GetFrame(read_ok, detected, obs, abort, swap, raises) ==
    /\ now < StartTime + MaxFrames
    /\ now' = now + 1
    /\ UNCHANGED <<trace, model_manager, pc>>
    /\ IF ~engine.cap \/ ~read_ok
       THEN /\ ret' = Ret("frame", None, [status |-> "none"])
            /\ effector' = <<>>
            /\ UNCHANGED <<app_modes, params, engine>>
       ELSE IF ~engine.running \/ engine.paused
       THEN /\ ret' = Ret("frame", None, [status |-> "paused"])
            /\ effector' = <<>>
            /\ UNCHANGED <<app_modes, params, engine>>
       ELSE \E r \in {FrameBody(engine, app_modes, params, now, detected, obs,
                                abort, swap, raises)} :
                /\ engine' = r.e
                /\ app_modes' = r.am
                /\ params' = r.p
                /\ effector' = r.eff
                /\ ret' = Ret("frame",
                              [obs |-> SubSeq(obs, 1, Len(r.out.fed)), abort |-> abort],
                              r.out)

Next ==
    \/ \E init \in {"ok", "no_models", "no_camera"} : Start(init)
    \/ Pause
    \/ Resume
    \/ Stop
    \/ \E mode_name \in FrameModes : Switch(mode_name)
    \/ GetFrame(FALSE, <<>>, <<Fist, Fist>>, "none", FALSE, NoRaise)
    \/ \E detected \in FrameDetections, obs \in FrameObservations,
          abort \in Aborts, d \in FrameDispatches :
           GetFrame(TRUE, detected, obs, abort, d.swap, d.raises)

Spec == Init /\ [][Next]_vars

\* The detection boxes of a list of regions: which regions the list holds.
Boxes(regions) == [k \in 1..Len(regions) |-> regions[k].pd_box]

\* s without the entries at the positions where drop is TRUE.
RECURSIVE Keep(_, _)
Keep(s, drop) ==
    IF s = <<>> THEN <<>>
    ELSE IF Head(drop) THEN Keep(Tail(s), Tail(drop))
    ELSE <<Head(s)>> \o Keep(Tail(s), Tail(drop))

\* A per-frame call of a running, unpaused engine whose camera gave a frame.
FrameRan ==
    /\ ret'.op = "frame"
    /\ engine.cap /\ engine.running /\ ~engine.paused
    /\ ret'.val.status # "none"      \* the call returned a frame

C10_RegionFailureIsolated ==
    [][FrameRan =>
        LET out == ret'.val
            obs == ret'.arg.obs
            fails == [k \in 1..Len(obs) |-> obs[k].fails]
            kept == Keep(obs, fails)
        IN  /\ (ret'.arg.abort \in {"none", "render"}) =>
                   /\ Boxes(out.processed) = Keep(Boxes(out.fed), fails)
                   /\ \A k \in 1..Len(out.processed) :
                          /\ out.processed[k].gesture_type = kept[k].gesture_type
                          /\ out.processed[k].hand = kept[k].hand
                          /\ out.processed[k].gesture_name # None
            /\ out.status = "processed" =>
                   /\ out.dispatched = Len(out.processed)
                   /\ Boxes(params'.previous_frame_processed_regions)
                          = Keep(Boxes(out.fed), fails)]_vars

\* The first of two regions fails; the second is classified, dispatched in
\* media mode (its bound key is pressed) and stored for the next frame.
C10_Witness ==
    /\ ret.op = "frame"
    /\ ret.val.status = "processed"
    /\ Len(ret.val.fed) = 2
    /\ ret.arg.obs[1].fails /\ ~ret.arg.obs[2].fails
    /\ Boxes(ret.val.processed) = <<FrameBoxes[2]>>
    /\ ret.val.dispatched = 1
    /\ app_modes.current_mode = "media_mode"
    /\ effector # <<>>
    /\ Boxes(params.previous_frame_processed_regions) = <<FrameBoxes[2]>>

(***************************************************************************)
(* The dispatcher's buttons (SpecDispatch).                                *)
(***************************************************************************)
\* C12: every mouse click handed to the effector has a button among left,
\* middle and right.
C12_ClickButtons ==
    \A k \in 1..Len(effector) :
        effector[k].fn = "click" => effector[k].arg \in {"left", "middle", "right"}

(***************************************************************************)
(* One region dispatched in a mode whose binding map was configured:       *)
(* process_application_modes with any binding for two gesture ids.         *)
(***************************************************************************)
MaxElapsedRegion == 7

RegionBindings ==
    {Binding("key_press", <<"space">>, "", SkipCooldown),
     Binding("key_press", <<>>, "", SkipCooldown),
     Binding("mouse_click", <<>>, "left", SkipCooldown),
     Binding("mouse_click", <<>>, "side", SkipCooldown),
     Binding("double_click", <<>>, "left", SkipCooldown)}

\* The configuration object with the media mode's bindings of the two ids
\* replaced.
ConfiguredAppModes(b1, b2) ==
    [DefaultAppModes EXCEPT
        !.gestures["media_mode"] =
            [g \in DispatchIds |-> IF g = "right_index_bent" THEN b1 ELSE b2]]

InitRegion ==
    /\ now = StartTime
    /\ \E b1 \in RegionBindings, b2 \in RegionBindings :
           app_modes = ConfiguredAppModes(b1, b2)
    /\ params = FreshParams
    /\ engine = NewEngine
    /\ effector = <<>>
    /\ ret = Ret("init", None, None)
    /\ trace = NoTrace
    /\ model_manager = NewModelManager
    /\ pc = AllIdle

\* Regions of a right hand with landmarks: the index bent or not, a fist or
\* no static label.
DispatchedRegions ==
    [landmarks : {TRUE}, hand : {"right"}, gesture_type : {"index_only", "none"},
     gesture_name : {"Closed_Fist", None}, tip : {<<5, 5>>},
     finger_distance : {150}, center_y : {500}]

RaiseSet == {NoRaise, AllRaise, [k \in 1..3 |-> k = 1], [k \in 1..3 |-> k = 2]}

ProcessRegion(region, swap, raises) ==
    \E r \in {ProcessApplicationModes(app_modes, params, now, region, swap, raises)} :
        /\ app_modes' = r.am
        /\ params' = r.p
        /\ effector' = r.eff
        /\ ret' = Ret("region",
                      IF swap THEN Reverse(DetectedGestures(region))
                      ELSE DetectedGestures(region),
                      [raised |-> r.raised, before |-> app_modes.gesture_timings])
        /\ UNCHANGED <<now, engine, trace, model_manager, pc>>

NextRegion ==
    \/ Tick(MaxElapsedRegion)
    \/ Switch("media_mode")
    \/ \E region \in DispatchedRegions, swap \in BOOLEAN, raises \in RaiseSet :
           ProcessRegion(region, swap, raises)

SpecRegion == InitRegion /\ [][NextRegion]_vars

\* A binding the dispatcher does not execute: an action that is neither a
\* key press nor a mouse click, a key press without a key, a mouse click
\* whose button the dispatcher does not recognize.
Malformed(b) ==
    \/ b.action \notin {"key_press", "mouse_click"}
    \/ b.action = "key_press" /\ b.key = <<>>
    \/ b.action = "mouse_click" /\ b.button \notin ValidButtons

Called(eff, gid) == \E k \in 1..Len(eff) : eff[k].gid = gid

\* C11: when a region has been dispatched in an enabled mode, a detected id
\* whose binding is malformed has no effector call and the last firing time
\* it had before (ret.val.before is the timing map before the call), and
\* every other detected id that is bound, well formed and out of its
\* cooldown has its effector call.
C11_MalformedBindingSkipped ==
    (ret.op = "region" /\ app_modes.current_mode \in Modes
     /\ app_modes.enabled[app_modes.current_mode]) =>
        LET g == app_modes.gestures[app_modes.current_mode]
            ids == ret.arg
            before == [app_modes EXCEPT !.gesture_timings = ret.val.before]
        IN  \A k \in 1..Len(ids) :
                ids[k] \in DOMAIN g =>
                    /\ Malformed(g[ids[k]]) =>
                           /\ ~Called(effector, ids[k])
                           /\ LastFired(app_modes, ids[k]) = LastFired(before, ids[k])
                           /\ (ids[k] \in DOMAIN app_modes.gesture_timings)
                                  = (ids[k] \in DOMAIN ret.val.before)
                    /\ (~Malformed(g[ids[k]]) /\ ~InCooldown(before, now, ids[k], g[ids[k]])) =>
                           Called(effector, ids[k])

\* The first id of the region has a malformed binding and is skipped, the
\* second one is executed and recorded.
C11_Witness ==
    /\ ret.op = "region"
    /\ Len(ret.arg) = 2
    /\ app_modes.current_mode = "media_mode"
    /\ Malformed(app_modes.gestures["media_mode"][ret.arg[1]])
    /\ ~Called(effector, ret.arg[1])
    /\ ret.arg[1] \notin DOMAIN app_modes.gesture_timings
    /\ Len(effector) = 1 /\ effector[1].gid = ret.arg[2] /\ effector[1].ok
    /\ LastFired(app_modes, ret.arg[2]) = now

(***************************************************************************)
(* Stop and start of the engine (Spec).                                    *)
(***************************************************************************)
\* C14: after stop() the capture is released and running and paused are
\* clear; a stop() of a stopped engine changes nothing; a start() whose
\* camera and models are available leaves the capture open and the engine
\* running and unpaused; and from every reachable state a stop followed by
\* such a start, repeated, gives the same engine and params again.
C14_StopStartCycle ==
    LET stopped == StopEngine(engine)
        once == StartEngine(stopped, app_modes, params, "ok")
        twice == StartEngine(StopEngine(once.e), app_modes, once.p, "ok")
    IN  /\ ret.op = "stop" => ~engine.cap /\ ~engine.running /\ ~engine.paused
        /\ ~stopped.cap /\ ~stopped.running /\ ~stopped.paused
        /\ StopEngine(stopped) = stopped
        /\ (ret.op = "start" /\ ret.arg = "ok") =>
               engine.cap /\ engine.running /\ ~engine.paused
        /\ once.e.cap /\ once.e.running /\ ~once.e.paused
        /\ twice = once

\* The engine was started again, with a new capture, after it had counted
\* frames and had been stopped.
C14_Witness ==
    /\ ret.op = "start" /\ ret.arg = "ok" /\ ret.val.reinit
    /\ engine.frame_count >= 1
    /\ engine.cap /\ engine.running /\ ~engine.paused

\* C15: after a start() whose initialisation did not get the camera or the
\* models, the engine is not running.
C15_FailedStartNotRunning ==
    (ret.op = "start" /\ ret.val.reinit /\ ret.arg # "ok") => ~engine.running

(***************************************************************************)
(* The scheduler's steps by hand count, from every state the scheduler     *)
(* reaches under SpecSched.                                                *)
(***************************************************************************)
SchedAfter(c) == SmartPalmDetectionStateMachine(params, now, c)

\* C19: from every scheduler state a step with hand count 0 sets NO_HANDS and
\* requires detection, a step with hand count >= 2 sets TWO_HANDS and does
\* not require detection, and neither changes the grace start or the
\* periodic counter.
C19_ZeroAndTwoHands ==
    /\ \A c \in {0} \cup (2..MaxHands) :
          /\ SchedAfter(c).p.palm_detection_state =
                 (IF c = 0 THEN "NO_HANDS" ELSE "TWO_HANDS")
          /\ SchedAfter(c).val = (c = 0)
          /\ SchedAfter(c).p.grace_period_start = params.grace_period_start
          /\ SchedAfter(c).p.periodic_check_counter = params.periodic_check_counter
    /\ (ret.op = "sched" /\ ret.arg # 1) =>
          /\ params.palm_detection_state =
                 (IF ret.arg = 0 THEN "NO_HANDS" ELSE "TWO_HANDS")
          /\ ret.val = (ret.arg = 0)

\* Two hands arrive after the stable state has counted a frame.
C19_Witness ==
    /\ ret.op = "sched" /\ ret.arg = 2
    /\ params.palm_detection_state = "TWO_HANDS"
    /\ params.periodic_check_counter > 0
    /\ params.grace_period_start > 0

\* C20: one hand in NO_HANDS starts ONE_HAND_SEARCHING, records now as the
\* grace start and requires detection; one hand in ONE_HAND_SEARCHING
\* requires detection while now - grace_start < grace_period_duration and
\* otherwise moves to ONE_HAND_STABLE without requiring detection; no other
\* step enters ONE_HAND_STABLE.
C20_GracePeriod ==
    /\ params.palm_detection_state = "NO_HANDS" =>
          /\ SchedAfter(1).p.palm_detection_state = "ONE_HAND_SEARCHING"
          /\ SchedAfter(1).p.grace_period_start = now
          /\ SchedAfter(1).val
    /\ params.palm_detection_state = "ONE_HAND_SEARCHING" =>
          IF now - params.grace_period_start >= GracePeriodDuration
          THEN /\ SchedAfter(1).p.palm_detection_state = "ONE_HAND_STABLE"
               /\ ~SchedAfter(1).val
          ELSE /\ SchedAfter(1).p = params
               /\ SchedAfter(1).val
    /\ \A c \in 0..MaxHands :
          (SchedAfter(c).p.palm_detection_state = "ONE_HAND_STABLE"
           /\ params.palm_detection_state # "ONE_HAND_STABLE") =>
              /\ c = 1
              /\ params.palm_detection_state = "ONE_HAND_SEARCHING"
              /\ now - params.grace_period_start >= GracePeriodDuration
    /\ params.palm_detection_state \in {"ONE_HAND_SEARCHING", "ONE_HAND_STABLE"} =>
          params.grace_period_start \in StartTime..now
    /\ params.palm_detection_state = "ONE_HAND_STABLE" =>
          now - params.grace_period_start >= GracePeriodDuration

\* The grace period has just run out on a one-hand frame.
C20_Witness ==
    /\ ret.op = "sched" /\ ret.arg = 1 /\ ~ret.val
    /\ params.palm_detection_state = "ONE_HAND_STABLE"
    /\ params.periodic_check_counter = 0
    /\ now - params.grace_period_start = GracePeriodDuration

(***************************************************************************)
(* calculate_angle on its own, over points of a small integer grid.        *)
(* The returned angle is held as the cosine it is the arc cosine of:       *)
(* cos = dot / sqrt(sq), and `inside` tells that the double computed for   *)
(* cos_angle lies strictly inside (-1, 1) although dot * dot = sq.         *)
(***************************************************************************)
AngleGrid == 2

AnglePoints == (0..AngleGrid) \X (0..AngleGrid)

Vec(a, b) == <<a[1] - b[1], a[2] - b[2]>>

DotProduct(u, v) == u[1] * v[1] + u[2] * v[2]

SumSq(v) == v[1] * v[1] + v[2] * v[2]

\* The pairs (n1, n2) of squared lengths up to 32 with n1 * n2 a perfect
\* square for which the double math.sqrt(n1) * math.sqrt(n2) is greater than
\* sqrt(n1 * n2): sqrt(2) * sqrt(2) is 2.0000000000000004. For (13, 13) and
\* (18, 18) the product is smaller, for every other such pair it is exact.
MagProductAbove ==
    {<<2, 2>>, <<2, 8>>, <<2, 32>>, <<5, 5>>, <<5, 20>>, <<8, 2>>, <<8, 8>>,
     <<8, 32>>, <<10, 10>>, <<20, 5>>, <<20, 20>>, <<32, 2>>, <<32, 8>>,
     <<32, 32>>}

\* The value returned for a zero-length arm: the integer 180.
Degrees180 == [dot |-> -1, sq |-> 1, inside |-> FALSE]

\* cos_angle after the clamp max(-1, min(1, cos_angle)).
CalculateAngle(p1, p2, p3) ==
    LET v1 == Vec(p1, p2)
        v2 == Vec(p3, p2)
    IN  IF SumSq(v1) = 0 \/ SumSq(v2) = 0
        THEN Degrees180
        ELSE [dot |-> DotProduct(v1, v2),
              sq |-> SumSq(v1) * SumSq(v2),
              inside |-> /\ DotProduct(v1, v2) * DotProduct(v1, v2)
                               = SumSq(v1) * SumSq(v2)
                         /\ <<SumSq(v1), SumSq(v2)>> \in MagProductAbove]

\* math.degrees(math.acos(c)) is 180 exactly when c is -1.
Is180(angle) ==
    angle.dot < 0 /\ angle.dot * angle.dot = angle.sq /\ ~angle.inside

Angle(p1, p2, p3) ==
    /\ ret' = Ret("angle", <<p1, p2, p3>>, CalculateAngle(p1, p2, p3))
    /\ effector' = <<>>
    /\ UNCHANGED <<now, app_modes, params, engine, trace, model_manager, pc>>

NextAngle == \E p1, p2, p3 \in AnglePoints : Angle(p1, p2, p3)

SpecAngle == Init /\ [][NextAngle]_vars

\* p2 lies on the segment from p1 to p3, or one arm has zero length.
StraightJoint(p1, p2, p3) ==
    \/ SumSq(Vec(p1, p2)) = 0
    \/ SumSq(Vec(p3, p2)) = 0
    \/ /\ Vec(p1, p2)[1] * Vec(p3, p2)[2] = Vec(p1, p2)[2] * Vec(p3, p2)[1]
       /\ DotProduct(Vec(p1, p2), Vec(p3, p2)) < 0

\* C18: calculate_angle returns 180 for colinear points with p2 between p1
\* and p3 and for a zero-length arm.
C18_StraightJointIs180 ==
    (ret.op = "angle" /\ StraightJoint(ret.arg[1], ret.arg[2], ret.arg[3]))
        => Is180(ret.val)

(***************************************************************************)
(* ModelManager on its own: two threads calling initialize_models,         *)
(* get_compiled_model, is_initialized and get_model_info. The methods      *)
(* that take self._lock wait until it is free; initialize_models holds it  *)
(* from its first line to its return, one loader per step.                 *)
(***************************************************************************)
MaxLoads == 2

LockFree == model_manager.lock = None

NoHandle == [model |-> None, load |-> 0]

\* compiled_models.get(model_name)
Handle(mm, model_name) ==
    IF mm.compiled_models[model_name] = 0
    THEN NoHandle
    ELSE [model |-> model_name, load |-> mm.compiled_models[model_name]]

AvailableModels(mm) == {m \in ModelNames : mm.compiled_models[m] > 0}

\* initialize_models, lines 20-22: the lock is taken; an initialized manager
\* returns True at once.
InitializeModelsEnter(th) ==
    /\ pc[th] = Idle
    /\ LockFree
    /\ model_manager.compiled_models[ModelOrder[1]] < MaxLoads
    /\ IF model_manager.initialized
       THEN /\ ret' = Ret("initialize_models", th, TRUE)
            /\ UNCHANGED <<model_manager, pc>>
       ELSE /\ model_manager' = [model_manager EXCEPT !.lock = th]
            /\ pc' = [pc EXCEPT ![th] = [at |-> "load", k |-> 1]]
            /\ ret' = Ret("enter", th, None)
    /\ effector' = <<>>
    /\ UNCHANGED <<now, app_modes, params, engine, trace>>

\* self.compiled_models[m] = compiled_model at the end of a loader.
StoreCompiled(mm, m) ==
    [mm EXCEPT !.compiled_models[m] = @ + 1]

\* The except branch, lines 44-46: the lock is released, nothing else.
LoadFailed(mm) == [mm EXCEPT !.lock = None]

\* Lines 25-42: the next loader runs; loaded tells whether it returned or
\* raised. After the last one _initialized is set and True returned.
InitializeModelsLoad(th, loaded) ==
    /\ pc[th].at = "load"
    /\ model_manager.lock = th
    /\ IF ~loaded
       THEN /\ model_manager' = LoadFailed(model_manager)
            /\ pc' = [pc EXCEPT ![th] = Idle]
            /\ ret' = Ret("initialize_models", th, FALSE)
       ELSE IF pc[th].k = Len(ModelOrder)
       THEN /\ model_manager' =
                   [StoreCompiled(model_manager, ModelOrder[pc[th].k])
                       EXCEPT !.initialized = TRUE, !.lock = None]
            /\ pc' = [pc EXCEPT ![th] = Idle]
            /\ ret' = Ret("initialize_models", th, TRUE)
       ELSE /\ model_manager' = StoreCompiled(model_manager, ModelOrder[pc[th].k])
            /\ pc' = [pc EXCEPT ![th] = [at |-> "load", k |-> pc[th].k + 1]]
            /\ ret' = Ret("load", th, ModelOrder[pc[th].k])
    /\ effector' = <<>>
    /\ UNCHANGED <<now, app_modes, params, engine, trace>>

\* get_compiled_model, lines 98-101.
GetCompiledModel(th, model_name) ==
    /\ pc[th] = Idle
    /\ LockFree
    /\ ret' = Ret("get_compiled_model", model_name,
                  [initialized |-> model_manager.initialized,
                   handle |-> Handle(model_manager, model_name)])
    /\ effector' = <<>>
    /\ UNCHANGED <<now, app_modes, params, engine, trace, model_manager, pc>>

\* is_initialized, lines 103-105: the flag is read without the lock.
IsInitialized(th) ==
    /\ pc[th] = Idle
    /\ ret' = Ret("is_initialized", th, model_manager.initialized)
    /\ effector' = <<>>
    /\ UNCHANGED <<now, app_modes, params, engine, trace, model_manager, pc>>

\* get_model_info, lines 107-114.
GetModelInfo(th) ==
    /\ pc[th] = Idle
    /\ LockFree
    /\ ret' = Ret("get_model_info", th,
                  [initialized |-> model_manager.initialized,
                   available_models |-> AvailableModels(model_manager),
                   model_count |-> Cardinality(AvailableModels(model_manager))])
    /\ effector' = <<>>
    /\ UNCHANGED <<now, app_modes, params, engine, trace, model_manager, pc>>

NextModels ==
    \E th \in Threads :
        \/ InitializeModelsEnter(th)
        \/ \E loaded \in BOOLEAN : InitializeModelsLoad(th, loaded)
        \/ \E model_name \in ModelNames : GetCompiledModel(th, model_name)
        \/ IsInitialized(th)
        \/ GetModelInfo(th)

SpecModels == Init /\ [][NextModels]_vars

\* C16: each model is loaded at most once, and a manager that reports 'not
\* initialized' shows no compiled model handle, through get_model_info or
\* through get_compiled_model.
C16_OneShotInitialization ==
    /\ \A m \in ModelNames : model_manager.compiled_models[m] <= 1
    /\ (ret.op = "get_model_info" /\ ~ret.val.initialized)
          => ret.val.available_models = {}
    /\ (ret.op = "get_compiled_model" /\ ~ret.val.initialized)
          => ret.val.handle = NoHandle

(***************************************************************************)
(* The frame loop on a worker thread and the interface on its own thread.  *)
(* The per-frame call is taken in steps: lines 151-207 up to the landmark  *)
(* stage, which read and write only what the frame loop owns, then one     *)
(* step for each region handed to the dispatcher, then lines 215-233.      *)
(* pause(), resume(), stop() and switch_mode() are called by the interface *)
(* thread between any two steps; start() is called by the worker before    *)
(* its loop.  trace.out holds, for the frame in progress, the regions      *)
(* dispatched and the interface calls that arrived, in order.              *)
(***************************************************************************)
MaxSignals == 1           \* interface calls that arrive within one frame
ThreadFrames == 1         \* per-frame calls of the worker

PauseEngine(e) == [e EXCEPT !.paused = TRUE]

ResumeEngine(e) == [e EXCEPT !.paused = FALSE]

Signal(e, sig) ==
    IF sig = "pause" THEN PauseEngine(e)
    ELSE IF sig = "resume" THEN ResumeEngine(e)
    ELSE StopEngine(e)

MidFrame == pc["worker"].at # "idle"

\* The interface calls among the events of a frame.
UiEvents(events) ==
    Cardinality({i \in 1..Len(events) : events[i].ev \notin {"gate", "region"}})

Event(ev) ==
    [ev |-> ev, mode |-> app_modes.current_mode, enabled |-> app_modes.enabled]

\* Lines 207-208: the landmark stage has run.
PrepareAfterLandmarks(prev, need, fed, lm) ==
    [aborted |-> FALSE,
     p |-> IF need THEN lm.p
           ELSE [lm.p EXCEPT !.previous_frame_processed_regions =
                                InPlace(prev, lm.processed, lm.idx)],
     need |-> need, fed |-> fed, processed |-> lm.processed]

\* Lines 189-208.
PrepareAfterDetection(p, prev, need, current, obs, abort) ==
    IF abort = "rect" /\ current # <<>>
    THEN [aborted |-> TRUE, p |-> p, need |-> need, fed |-> current,
          processed |-> <<>>]
    ELSE PrepareAfterLandmarks(prev, need, current,
                               ProcessLandmarksAndGestures(p, current, obs, 1))

\* Lines 187-208.
PrepareAfterFallback(p, prev, need, detected, obs, abort) ==
    PrepareAfterDetection(p, prev, need,
                          IF need THEN SmoothDetectionBoxes(prev, detected) ELSE prev,
                          obs, abort)

\* Lines 177-208.
PrepareAfterScheduler(prev, sm, detected, obs, abort) ==
    PrepareAfterFallback(sm.p, prev,
                         sm.val \/ sm.p.always_run_palm_detection
                                \/ ShouldRunPalmDetection(prev),
                         detected, obs, abort)

\* Lines 166-208 of the per-frame call: the try block up to and including
\* the landmark stage.  aborted tells that one of these lines raised.
FramePrepare(p, t, detected, obs, abort) ==
    IF abort = "resize"
    THEN [aborted |-> TRUE, p |-> p, need |-> FALSE, fed |-> <<>>,
          processed |-> <<>>]
    ELSE PrepareAfterScheduler(p.previous_frame_processed_regions,
             SmartPalmDetectionStateMachine(p, t, Len(p.previous_frame_processed_regions)),
             detected, obs, abort)

\* The position of the worker in front of the dispatch loop.
AtDispatch(prep, t, abort, raises, atomic) ==
    [at |-> "dispatch", k |-> 1, t |-> t, need |-> prep.need, fed |-> prep.fed,
     processed |-> prep.processed, abort |-> abort, raises |-> raises,
     eff |-> <<>>, raised |-> prep.aborted, n |-> 0, atomic |-> atomic]

\* A dispatch loop that goes on only while the engine runs unpaused.
LoopContinuesWhileRunning(e) == e.running /\ ~e.paused

\* Lines 211-212: `for region in processed_regions` has no other condition.
LoopContinues(e) == TRUE

Before == [e |-> engine, am |-> app_modes, p |-> params]

\* A call that ends without processing the frame.
FrameSkipped(status) ==
    /\ ret' = Ret("frame", None, [status |-> status, before |-> pc["worker"].before])
    /\ pc' = [pc EXCEPT !["worker"] = Idle]
    /\ effector' = <<>>
    /\ UNCHANGED <<now, app_modes, params, engine, trace, model_manager>>

\* Lines 151-152: the capture is looked at.
FrameEnter ==
    /\ ~MidFrame
    /\ now < StartTime + ThreadFrames
    /\ now' = now + 1
    /\ trace' = NoTrace
    /\ effector' = <<>>
    /\ UNCHANGED <<app_modes, params, engine, model_manager>>
    /\ IF ~engine.cap
       THEN /\ ret' = Ret("frame", None, [status |-> "none", before |-> Before])
            /\ UNCHANGED pc
       ELSE /\ ret' = Ret("frame_enter", None, [status |-> "entered"])
            /\ pc' = [pc EXCEPT !["worker"] = [at |-> "read", before |-> Before]]

\* Lines 154-156: self.cap.read().  After a stop() self.cap is None and the
\* call raises AttributeError outside the try block.
FrameRead(read_ok) ==
    /\ pc["worker"].at = "read"
    /\ IF ~engine.cap THEN FrameSkipped("raised")
       ELSE IF ~read_ok THEN FrameSkipped("none")
       ELSE /\ pc' = [pc EXCEPT !["worker"].at = "gate"]
            /\ ret' = Ret("frame_read", None, [status |-> "read"])
            /\ effector' = <<>>
            /\ UNCHANGED <<now, app_modes, params, engine, trace, model_manager>>

\* Lines 160-208: running and paused are read once; then the try block up
\* to the landmark stage.
FrameGate(detected, obs, abort, raises) ==
    /\ pc["worker"].at = "gate"
    /\ IF ~engine.running \/ engine.paused
       THEN FrameSkipped("paused")
       ELSE \E prep \in {FramePrepare(params, now, detected, obs, abort)} :
                /\ params' = prep.p
                /\ effector' = <<>>
                /\ ret' = Ret("frame_start", None, [status |-> "started"])
                /\ pc' = [pc EXCEPT !["worker"] =
                             AtDispatch(prep, now, abort, raises,
                                        FrameBody(engine, app_modes, params, now,
                                                  detected, obs, abort, FALSE, raises))]
                /\ trace' = [trace EXCEPT !.out = Append(@, Event("gate"))]
                /\ UNCHANGED <<now, app_modes, engine, model_manager>>

\* Line 212 for the next region.
FrameDispatchOne ==
    /\ pc["worker"].at = "dispatch"
    /\ ~pc["worker"].raised
    /\ pc["worker"].k <= Len(pc["worker"].processed)
    /\ LoopContinues(engine)
    /\ \E r \in {ProcessApplicationModes(app_modes, params, pc["worker"].t,
                     pc["worker"].processed[pc["worker"].k], FALSE,
                     pc["worker"].raises)} :
           /\ app_modes' = r.am
           /\ params' = r.p
           /\ effector' = r.eff
           /\ pc' = [pc EXCEPT !["worker"].eff = @ \o r.eff,
                               !["worker"].raised = r.raised,
                               !["worker"].k = @ + 1,
                               !["worker"].n = @ + 1]
    /\ trace' = [trace EXCEPT !.out = Append(@, Event("region"))]
    /\ ret' = Ret("region", None, [status |-> "dispatched"])
    /\ UNCHANGED <<now, engine, model_manager>>

\* Lines 215-241 with the worker's position w.
FrameFinishAs(w, status) ==
    \E d \in {IF status = "degraded"
              THEN FrameDegraded(engine, params, w.processed)
              ELSE FrameCompleted(engine, params, w.processed)} :
        /\ engine' = d.e
        /\ params' = d.p
        /\ effector' = w.eff
        /\ ret' = Ret("frame_end", None,
                      [status |-> status,
                       out |-> FrameOutcome(status, w.need, w.fed, w.processed, w.n),
                       atomic |-> w.atomic])

FrameFinish ==
    /\ pc["worker"].at = "dispatch"
    /\ \/ pc["worker"].raised
       \/ pc["worker"].k > Len(pc["worker"].processed)
       \/ ~LoopContinues(engine)
    /\ FrameFinishAs(pc["worker"],
                     IF pc["worker"].raised \/ RenderRaises(engine, pc["worker"].abort)
                     THEN "degraded" ELSE "processed")
    /\ pc' = [pc EXCEPT !["worker"] = Idle]
    /\ UNCHANGED <<now, app_modes, trace, model_manager>>

\* The worker calls start() before it enters its loop.
WorkerStart == ~MidFrame /\ Start("ok")

\* pause(), resume() or stop() called by the interface thread.
UiSignal(sig) ==
    /\ MidFrame => UiEvents(trace.out) < MaxSignals
    /\ engine' = Signal(engine, sig)
    /\ trace' = IF MidFrame THEN [trace EXCEPT !.out = Append(@, Event(sig))]
                ELSE trace
    /\ effector' = <<>>
    /\ ret' = Ret(sig, None, [status |-> "signal"])
    /\ UNCHANGED <<now, app_modes, params, model_manager, pc>>

\* change_mode: switch_mode called by the interface thread.
UiSwitch(mode_name) ==
    /\ MidFrame => UiEvents(trace.out) < MaxSignals
    /\ app_modes' = SwitchMode(app_modes, now, mode_name).am
    /\ trace' = IF MidFrame THEN [trace EXCEPT !.out = Append(@, Event("switch"))]
                ELSE trace
    /\ effector' = <<>>
    /\ ret' = Ret("switch_mode", mode_name,
                  [status |-> SwitchMode(app_modes, now, mode_name).val])
    /\ UNCHANGED <<now, params, engine, model_manager, pc>>

\* The frames taken here: two palms detected, the second region with or
\* without landmarks; the render stage raises when the engine was started
\* in browser mode.
ThreadDetections == {d \in FrameDetections : Len(d) = 2}
ThreadObservations == {<<Fist, Fist>>, <<Fist, LowScore>>}
ThreadAborts == {"none"}
ThreadModes == {"media_mode", "browser_mode"}

NextThreads ==
    \/ WorkerStart
    \/ \E sig \in {"pause", "resume", "stop"} : UiSignal(sig)
    \/ \E mode_name \in ThreadModes : UiSwitch(mode_name)
    \/ FrameEnter
    \/ \E read_ok \in BOOLEAN : FrameRead(read_ok)
    \/ \E detected \in ThreadDetections, obs \in ThreadObservations,
          abort \in ThreadAborts, d \in FrameDispatches :
           FrameGate(detected, obs, abort, d.raises)
    \/ FrameDispatchOne
    \/ FrameFinish

SpecThreads == Init /\ [][NextThreads]_vars

RECURSIVE AfterSignals(_, _, _)
AfterSignals(e, events, i) ==
    IF i > Len(events) THEN e
    ELSE AfterSignals(IF events[i].ev \in {"pause", "resume", "stop"}
                      THEN Signal(e, events[i].ev) ELSE e,
                      events, i + 1)

NoSwitch(events) == \A i \in 1..Len(events) : events[i].ev # "switch"

\* The events of a frame from the one that passed line 160 on.
SinceGate(events) ==
    IF \E i \in 1..Len(events) : events[i].ev = "gate"
    THEN SubSeq(events, CHOOSE i \in 1..Len(events) : events[i].ev = "gate",
                Len(events))
    ELSE <<>>

\* C13: a per-frame call that finds the engine paused or not running issues
\* no effector call and leaves params, configuration and frame count as they
\* were when it began; a frame that has passed the running/paused test and
\* during which pause, resume or stop arrive ends with the outcome, effector
\* calls, params and configuration of the same frame taken without
\* interruption, and its engine differs from that frame's only by what the
\* signals themselves set.
C13_SignalsBetweenFrames ==
    /\ ret.op = "frame" =>
          /\ effector = <<>>
          /\ params = ret.val.before.p
          /\ engine.frame_count = ret.val.before.e.frame_count
          /\ NoSwitch(trace.out) => app_modes = ret.val.before.am
    /\ (ret.op = "frame_end" /\ NoSwitch(SinceGate(trace.out))) =>
          /\ ret.val.out = ret.val.atomic.out
          /\ effector = ret.val.atomic.eff
          /\ params = ret.val.atomic.p
          /\ app_modes = ret.val.atomic.am
          /\ engine = AfterSignals(ret.val.atomic.e, SinceGate(trace.out), 1)

\* A frame of two regions, paused after the first was dispatched, has run to
\* its end with both dispatched.
C13_Witness ==
    /\ ret.op = "frame_end" /\ ret.val.status = "processed"
    /\ Len(trace.out) = 4
    /\ trace.out[1].ev = "gate" /\ trace.out[2].ev = "region"
    /\ trace.out[3].ev = "pause" /\ trace.out[4].ev = "region"
    /\ ret.val.out.dispatched = 2
    /\ effector # <<>>
    /\ engine.paused /\ engine.frame_count = 1

\* C17: the regions dispatched within one frame all see the same current
\* mode and the same enabled flags.
C17_ModeFixedWithinFrame ==
    \A i, j \in 1..Len(trace.out) :
        (trace.out[i].ev = "region" /\ trace.out[j].ev = "region") =>
            /\ trace.out[i].mode = trace.out[j].mode
            /\ trace.out[i].enabled = trace.out[j].enabled

(***************************************************************************)
(* The scheduler with the frames spent in ONE_HAND_STABLE kept: trace.out  *)
(* holds what the state machine returned on each frame since the state     *)
(* was entered, trace.on tells that the state is ONE_HAND_STABLE.          *)
(***************************************************************************)
MaxElapsedPeriodic == 21
MaxStableFrames == 7

StableFrames(before, after, val) ==
    IF after.palm_detection_state # "ONE_HAND_STABLE"
    THEN [on |-> FALSE, out |-> <<>>]
    ELSE IF before.palm_detection_state # "ONE_HAND_STABLE"
    THEN [on |-> TRUE, out |-> <<>>]
    ELSE [on |-> TRUE, out |-> Append(trace.out, val)]

PeriodicStep(c) ==
    LET r == SmartPalmDetectionStateMachine(params, now, c) IN
    /\ Len(trace.out) < MaxStableFrames
    /\ params' = r.p
    /\ effector' = <<>>
    /\ ret' = Ret("sched", c, r.val)
    /\ trace' = StableFrames(params, r.p, r.val)
    /\ UNCHANGED <<now, app_modes, engine, model_manager, pc>>

NextPeriodic ==
    \/ Tick(MaxElapsedPeriodic)
    \/ \E c \in 0..MaxHands : PeriodicStep(c)

SpecPeriodic == Init /\ [][NextPeriodic]_vars

\* C21: the periodic counter stays within 0..periodic_check_interval-1, and
\* after each entry into ONE_HAND_STABLE detection is required exactly on
\* the stable frames whose number is a multiple of periodic_check_interval.
C21_PeriodicCheck ==
    /\ params.periodic_check_counter \in 0..(PeriodicCheckInterval - 1)
    /\ params.palm_detection_state = "ONE_HAND_STABLE" =>
          /\ trace.on
          /\ \A i \in 1..Len(trace.out) :
                trace.out[i] = (i % PeriodicCheckInterval = 0)
          /\ params.periodic_check_counter = Len(trace.out) % PeriodicCheckInterval

(***************************************************************************)
(* The frames of a started engine, with always_run_palm_detection as the   *)
(* configuration has it.                                                   *)
(***************************************************************************)
InitFallback ==
    /\ now = StartTime
    /\ app_modes = DefaultAppModes
    /\ \E always \in BOOLEAN :
          params = [FreshParams EXCEPT !.always_run_palm_detection = always]
    /\ engine = StartEngine(NewEngine, DefaultAppModes, FreshParams, "ok").e
    /\ effector = <<>>
    /\ ret = Ret("init", None, None)
    /\ trace = NoTrace
    /\ model_manager = NewModelManager
    /\ pc = AllIdle

NextFallback ==
    \/ GetFrame(FALSE, <<>>, <<Fist, Fist>>, "none", FALSE, NoRaise)
    \/ \E detected \in FrameDetections, obs \in FrameObservations,
          abort \in Aborts :
           GetFrame(TRUE, detected, obs, abort, FALSE, NoRaise)

SpecFallback == InitFallback /\ [][NextFallback]_vars

\* C22: a frame whose try block gets past the resize runs detection exactly
\* when the state machine requires it, or always_run_palm_detection is set,
\* or a previous region's landmark score is below the threshold; the state
\* machine's transition is taken whatever the fallback says; and a frame
\* without detection feeds the landmark stage the previous regions.
C22_DetectionDecision ==
    [][(FrameRan /\ ret'.arg.abort # "resize") =>
        LET prev == params.previous_frame_processed_regions
            sm == SmartPalmDetectionStateMachine(params, now, Len(prev))
            out == ret'.val
        IN  /\ out.need = (\/ sm.val
                           \/ params.always_run_palm_detection
                           \/ \E k \in 1..Len(prev) : ~prev[k].lm_ok)
            /\ params'.palm_detection_state = sm.p.palm_detection_state
            /\ params'.grace_period_start = sm.p.grace_period_start
            /\ params'.periodic_check_counter = sm.p.periodic_check_counter
            /\ ~out.need => out.fed = prev]_vars

\* Two hands are tracked with good landmark scores, the state machine does
\* not ask for detection, and the always-run flag makes the frame detect.
C22_Witness ==
    /\ ret.op = "frame" /\ ret.val.status = "processed"
    /\ ret.val.need
    /\ params.always_run_palm_detection
    /\ params.palm_detection_state = "TWO_HANDS"
    /\ engine.frame_count = 2
    /\ Len(ret.val.processed) = 2

(***************************************************************************)
(* The scheduler called frame after frame: a step with one hand that       *)
(* changes the state is not put off forever.                               *)
(***************************************************************************)
InitLive ==
    /\ now = StartTime
    /\ app_modes = DefaultAppModes
    /\ params = FreshParams
    /\ engine = NewEngine
    /\ effector = <<>>
    /\ ret = Ret("init", 0, FALSE)
    /\ trace = NoTrace
    /\ model_manager = NewModelManager
    /\ pc = AllIdle

\* time.time() is read later.
LiveTick ==
    /\ now < StartTime + MaxElapsed
    /\ now' = now + 1
    /\ ret' = Ret("tick", 0, FALSE)
    /\ effector' = <<>>
    /\ UNCHANGED <<app_modes, params, engine, trace, model_manager, pc>>

NextSchedLive ==
    \/ LiveTick
    \/ \E c \in 0..MaxHands : SchedStep(c)

SpecSchedLive == InitLive /\ [][NextSchedLive]_vars /\ WF_vars(SchedStep(1))

\* C23: if from some frame on every step has hand count 1, the state machine
\* requires detection again and again.
C23_DetectsAgain ==
    <>[](ret.op = "sched" /\ ret.arg = 1) => []<>(ret.op = "sched" /\ ret.val)

\* C24: after a scheduler step the state is NO_HANDS iff the count passed
\* in was 0, TWO_HANDS iff it was 2 or more, and one of the ONE_HAND states
\* iff it was 1.
C24_StateAgreesWithCount ==
    ret.op = "sched" =>
        /\ (params.palm_detection_state = "NO_HANDS") = (ret.arg = 0)
        /\ (params.palm_detection_state = "TWO_HANDS") = (ret.arg >= 2)
        /\ (params.palm_detection_state \in {"ONE_HAND_SEARCHING", "ONE_HAND_STABLE"})
              = (ret.arg = 1)

(***************************************************************************)
(* Regions of both hands dispatched while the interface switches between   *)
(* the modes, from a configuration whose enabled flags were loaded from    *)
(* the file: process_application_modes, switch_mode and the clock.         *)
(***************************************************************************)
WaitStep == 10             \* ticks between two clock readings here
MaxElapsedBrowser == 40

\* load_config: the enabled flag of a mode is taken from the file, while
\* current_mode (a key that ends with '_mode' and is no dict) is skipped by
\* both loops and stays 'disabled'.
LoadedAppModes(browser) ==
    [DefaultAppModes EXCEPT !.enabled["browser_mode"] = browser]

InitBrowser ==
    /\ now = StartTime
    /\ \E browser \in BOOLEAN : app_modes = LoadedAppModes(browser)
    /\ params = FreshParams
    /\ engine = NewEngine
    /\ effector = <<>>
    /\ ret = Ret("init", None, None)
    /\ trace = NoTrace
    /\ model_manager = NewModelManager
    /\ pc = AllIdle

\* time.time() is read WaitStep ticks later.
Wait(limit) ==
    /\ now + WaitStep <= StartTime + limit
    /\ now' = now + WaitStep
    /\ ret' = Ret("tick", None, None)
    /\ effector' = <<>>
    /\ UNCHANGED <<app_modes, params, engine, trace, model_manager, pc>>

Hand(landmarks, hand, gesture_type, gesture_name, finger_distance, center_y) ==
    [landmarks |-> landmarks, hand |-> hand, gesture_type |-> gesture_type,
     gesture_name |-> gesture_name, tip |-> <<5, 5>>,
     finger_distance |-> finger_distance, center_y |-> center_y]

\* The regions of this model: the ILoveYou label on either hand and on a
\* region without landmarks, a right hand pinching at two heights and open,
\* a left hand pinching with its index bent.
BrowserRegions ==
    {Hand(TRUE, "right", "none", "ILoveYou", 150, 500),
     Hand(TRUE, "left", "none", "ILoveYou", 150, 500),
     Hand(FALSE, "right", "none", "ILoveYou", 150, 500),
     Hand(TRUE, "right", "none", None, 50, 500),
     Hand(TRUE, "right", "none", None, 50, 560),
     Hand(TRUE, "right", "none", None, 150, 500),
     Hand(TRUE, "left", "index_only", None, 50, 560)}

BrowserModes == {"disabled", "media_mode", "browser_mode"}

\* ret.val keeps the configuration object and the params the call started
\* from.
Process(region) ==
    \E r \in {ProcessApplicationModes(app_modes, params, now, region, FALSE, NoRaise)} :
        /\ app_modes' = r.am
        /\ params' = r.p
        /\ effector' = r.eff
        /\ ret' = Ret("process", region,
                      [raised |-> r.raised, am |-> app_modes, p |-> params])
        /\ UNCHANGED <<now, engine, trace, model_manager, pc>>

NextBrowser ==
    \/ Wait(MaxElapsedBrowser)
    \/ \E mode_name \in BrowserModes : Switch(mode_name)
    \/ \E region \in BrowserRegions : Process(region)

SpecBrowser == InitBrowser /\ [][NextBrowser]_vars

\* The calls of an effector trace that are bound actions: key presses,
\* hotkeys and clicks.
BoundCalls(eff) ==
    {k \in 1..Len(eff) : eff[k].fn \in {"press", "hotkey", "click"}}

\* C25: every key press, hotkey or click made for a region is made in a
\* current mode that is not 'disabled' and whose enabled flag is set, for an
\* id that the region gives (the hand side with the angle pattern, or the id
\* of the static label) and that is a key of the mode's binding map; a region
\* processed while the current mode is 'disabled' has no such call and leaves
\* the gesture-timing map as it was (ret.val.am is the configuration object
\* before the call).
C25_BoundActionsGated ==
    ret.op = "process" =>
        LET region == ret.arg
            mode == app_modes.current_mode
            angle == IF region.gesture_type = "index_only"
                     THEN {region.hand \o "_index_bent"}
                     ELSE IF region.gesture_type = "index_middle_both"
                     THEN {region.hand \o "_index_middle_bent"}
                     ELSE {}
            static == IF region.gesture_name = "Closed_Fist" THEN {"fist_gesture"}
                      ELSE IF region.gesture_name = "Open_Palm" THEN {"open_palm_gesture"}
                      ELSE IF region.gesture_name = "ILoveYou" THEN {"iloveyou_gesture"}
                      ELSE {}
        IN  /\ mode = ret.val.am.current_mode
            /\ \A k \in BoundCalls(effector) :
                   /\ mode \in Modes
                   /\ app_modes.enabled[mode]
                   /\ effector[k].gid \in angle \cup static
                   /\ effector[k].gid \in DOMAIN app_modes.gestures[mode]
            /\ mode = "disabled" =>
                   /\ BoundCalls(effector) = {}
                   /\ app_modes.gesture_timings = ret.val.am.gesture_timings

\* A left hand with its index bent clicks in the browser mode.
C25_Witness ==
    /\ ret.op = "process"
    /\ app_modes.current_mode = "browser_mode"
    /\ ret.arg.hand = "left" /\ ret.arg.gesture_type = "index_only"
    /\ Len(effector) = 1
    /\ effector[1].fn = "click" /\ effector[1].gid = "left_index_bent"
    /\ LastFired(app_modes, "left_index_bent") = now

(***************************************************************************)
(* The regions of a frame dispatched one after the other while effector    *)
(* calls raise: the loop over processed_regions in the media mode.         *)
(***************************************************************************)
IndexFist == Hand(TRUE, "right", "index_only", "Closed_Fist", 150, 500)
FistOnly == Hand(TRUE, "right", "none", "Closed_Fist", 150, 500)

\* The regions handed to the dispatcher in a frame: one or two.
RaiseRegions ==
    {<<IndexFist>>, <<FistOnly>>, <<IndexFist, IndexFist>>,
     <<FistOnly, IndexFist>>, <<IndexFist, FistOnly>>}

\* ret.arg is the list of regions, ret.val.before the timing map before the
\* frame, ret.val.n the number of regions the loop reached.
ProcessRegions(regs, swap, raises) ==
    \E r \in {DispatchRegions(app_modes, params, now, regs, 1, swap, raises)} :
        /\ app_modes' = r.am
        /\ params' = r.p
        /\ effector' = r.eff
        /\ ret' = Ret("regions", regs,
                      [raised |-> r.raised, n |-> r.n,
                       before |-> app_modes.gesture_timings])
        /\ UNCHANGED <<now, engine, trace, model_manager, pc>>

NextRaise ==
    \/ Tick(MaxElapsedRegion)
    \/ Switch("media_mode")
    \/ \E regs \in RaiseRegions, swap \in BOOLEAN, raises \in RaiseSet :
           ProcessRegions(regs, swap, raises)

SpecRaise == Init /\ [][NextRaise]_vars

\* The effector calls made for an id, and those of them that returned.
CallsOf(eff, gid) == {k \in 1..Len(eff) : eff[k].gid = gid}
Returned(eff, gid) == {k \in CallsOf(eff, gid) : eff[k].ok}

\* The regions of a list that show an id.
Showing(regs, gid) ==
    {j \in 1..Len(regs) :
        \E k \in 1..Len(DetectedGestures(regs[j])) : DetectedGestures(regs[j])[k] = gid}

\* C26: when the regions of a frame are dispatched in an enabled mode and
\* effector calls raise, no exception leaves the dispatcher and the loop
\* reaches every region; an id none of whose calls returned keeps the last
\* firing time it had before the frame (and stays absent from the timing map
\* if it was absent), while an id with a call that returned is recorded at
\* the current time; and every bound id that was out of its cooldown is
\* called, once for every region showing it as long as no call returned.
C26_EffectorFailureContained ==
    (ret.op = "regions" /\ app_modes.current_mode \in Modes
     /\ app_modes.enabled[app_modes.current_mode]) =>
        LET g == app_modes.gestures[app_modes.current_mode]
            before == [app_modes EXCEPT !.gesture_timings = ret.val.before]
        IN  /\ ~ret.val.raised
            /\ ret.val.n = Len(ret.arg)
            /\ \A gid \in DOMAIN g :
                   /\ Returned(effector, gid) = {} =>
                          /\ LastFired(app_modes, gid) = LastFired(before, gid)
                          /\ (gid \in DOMAIN app_modes.gesture_timings)
                                 = (gid \in DOMAIN ret.val.before)
                   /\ Returned(effector, gid) # {} =>
                          /\ LastFired(app_modes, gid) = now
                          /\ Cardinality(Returned(effector, gid)) = 1
                   /\ (Showing(ret.arg, gid) # {} /\ ~InCooldown(before, now, gid, g[gid])) =>
                          /\ CallsOf(effector, gid) # {}
                          /\ Returned(effector, gid) = {} =>
                                 Cardinality(CallsOf(effector, gid))
                                     = Cardinality(Showing(ret.arg, gid))

\* The fist of the first region raises and is not recorded; the second
\* region's index call raises too, and its fist is called again and
\* recorded.
C26_Witness ==
    /\ ret.op = "regions"
    /\ app_modes.current_mode = "media_mode"
    /\ ret.arg = <<FistOnly, IndexFist>>
    /\ ~ret.val.raised /\ ret.val.n = 2
    /\ Len(effector) = 3
    /\ effector[1].gid = "fist_gesture" /\ ~effector[1].ok
    /\ effector[2].gid = "right_index_bent" /\ ~effector[2].ok
    /\ effector[3].gid = "fist_gesture" /\ effector[3].ok
    /\ "right_index_bent" \notin DOMAIN app_modes.gesture_timings
    /\ LastFired(app_modes, "fist_gesture") = now

\* C27: the right-hand sub-mode is always 'cursor' or 'scroll'; it changes
\* only in a step that processes a region with landmarks of a right hand
\* showing ILoveYou while browser_mode's enabled flag is set, and then at
\* least browser_iloveyou_switch_cooldown after the time kept in
\* browser_last_iloveyou_switch, which becomes the current time; in every
\* other step (a left hand showing ILoveYou among them) both the sub-mode and
\* that time stay as they are, so that two flips are at least the cooldown
\* apart.
C27_SubModeToggle ==
    /\ [](app_modes.browser_right_hand_mode \in {"cursor", "scroll"})
    /\ [][IF app_modes'.browser_right_hand_mode # app_modes.browser_right_hand_mode
          THEN /\ ret'.op = "process"
               /\ app_modes.enabled["browser_mode"]
               /\ ret'.arg.landmarks
               /\ ret'.arg.hand = "right"
               /\ ret'.arg.gesture_name = "ILoveYou"
               /\ now' - app_modes.browser_last_iloveyou_switch >= IloveyouSwitchCooldown
               /\ app_modes'.browser_last_iloveyou_switch = now'
          ELSE app_modes'.browser_last_iloveyou_switch
                   = app_modes.browser_last_iloveyou_switch]_vars

\* The sub-mode flips back to cursor exactly one cooldown after the flip to
\* scroll.
C27_Witness ==
    /\ ret.op = "process"
    /\ ret.arg.hand = "right" /\ ret.arg.gesture_name = "ILoveYou"
    /\ ret.val.am.browser_right_hand_mode = "scroll"
    /\ ret.val.am.browser_last_iloveyou_switch = now - IloveyouSwitchCooldown
    /\ app_modes.browser_right_hand_mode = "cursor"
    /\ app_modes.browser_last_iloveyou_switch = now

(***************************************************************************)
(* The sub-mode toggle and the mode switch side by side, long enough for   *)
(* three accepted switches.                                                *)
(***************************************************************************)
MaxElapsedToggle == 80

ToggleRegions ==
    {Hand(TRUE, "right", "none", "ILoveYou", 150, 500),
     Hand(TRUE, "left", "none", "ILoveYou", 150, 500),
     Hand(TRUE, "right", "none", None, 150, 500)}

\* switch_mode; trace.out lists the accepted switches: the mode left, the
\* mode entered and the sub-mode at that moment.
SwitchTraced(mode_name) ==
    \E r \in {SwitchMode(app_modes, now, mode_name)} :
        /\ app_modes' = r.am
        /\ effector' = <<>>
        /\ ret' = Ret("switch_mode", mode_name, r.val)
        /\ trace' = IF r.val = "True"
                    THEN [trace EXCEPT !.out =
                             Append(@, [from |-> app_modes.current_mode,
                                        to |-> mode_name,
                                        rh |-> r.am.browser_right_hand_mode])]
                    ELSE trace
        /\ UNCHANGED <<now, params, engine, model_manager, pc>>

NextToggle ==
    \/ Wait(MaxElapsedToggle)
    \/ \E mode_name \in BrowserModes : SwitchTraced(mode_name)
    \/ \E region \in ToggleRegions : Process(region)

SpecToggle == InitBrowser /\ [][NextToggle]_vars

\* C28: a switch_mode call, accepted or rejected, leaves the right-hand
\* sub-mode and browser_last_iloveyou_switch as they are; a processed region
\* (the toggle runs in it) leaves current_mode, every enabled flag and
\* last_mode_switch as they are; and when browser_mode is entered after it
\* was left, the sub-mode is the one it had when it was left.
C28_SwitchAndToggleIndependent ==
    /\ [][/\ ret'.op = "switch_mode" =>
                /\ app_modes'.browser_right_hand_mode = app_modes.browser_right_hand_mode
                /\ app_modes'.browser_last_iloveyou_switch
                       = app_modes.browser_last_iloveyou_switch
          /\ ret'.op = "process" =>
                /\ app_modes'.current_mode = app_modes.current_mode
                /\ app_modes'.enabled = app_modes.enabled
                /\ app_modes'.last_mode_switch = app_modes.last_mode_switch]_vars
    /\ [](\A i, j \in 1..Len(trace.out) :
              (/\ i < j
               /\ trace.out[i].from = "browser_mode"
               /\ trace.out[i].to # "browser_mode"
               /\ trace.out[j].to = "browser_mode"
               /\ \A k \in (i + 1)..(j - 1) : trace.out[k].to # "browser_mode")
                  => trace.out[j].rh = trace.out[i].rh)

\* browser_mode entered, the sub-mode toggled to scroll, the mode left for
\* media_mode and entered again: the sub-mode is still scroll.
C28_Witness ==
    /\ ret.op = "switch_mode" /\ ret.val = "True"
    /\ Len(trace.out) = 3
    /\ trace.out[1].to = "browser_mode" /\ trace.out[1].rh = "cursor"
    /\ trace.out[2].from = "browser_mode" /\ trace.out[2].to = "media_mode"
    /\ trace.out[2].rh = "scroll"
    /\ trace.out[3].to = "browser_mode"
    /\ app_modes.current_mode = "browser_mode"
    /\ app_modes.browser_right_hand_mode = "scroll"

\* The calls of an effector trace made by the continuous controllers:
\* pointer moves and scroll ticks.
IsContinuous(c) == c.fn \in {"moveTo", "scroll"}
ContinuousCalls(eff) == SelectSeq(eff, IsContinuous)

\* C29: for a processed region (one with landmarks), with the sub-mode as it
\* is after the toggle handling of that call: in browser_mode, for a right
\* hand and sub-mode cursor, the params and the pointer move are those of the
\* cursor controller and the scroll state is untouched; in browser_mode, for
\* a right hand and sub-mode scroll, the params and the scroll tick are those
\* of the scroll controller and no pointer move is made; for a left hand, or
\* in any other current mode, no pointer move and no scroll tick is made and
\* the params (the scroll grip state among them) stay as they were.  ret.val.p
\* is the params before the call.
C29_OneContinuousController ==
    (ret.op = "process" /\ ret.arg.landmarks) =>
        LET region == ret.arg
            before == ret.val.p
            calls == ContinuousCalls(effector)
            browser_right == /\ app_modes.current_mode = "browser_mode"
                             /\ region.hand = "right"
            sub == app_modes.browser_right_hand_mode
            cursor == HandleCursorControl(before, region, TRUE, FALSE)
            scroll == HandleScrollControl(before, now, region, TRUE, FALSE)
        IN  /\ Len(calls) <= 1
            /\ (browser_right /\ sub = "cursor") =>
                   /\ params = cursor.p
                   /\ calls = cursor.eff
                   /\ Len(calls) = 1 /\ calls[1].fn = "moveTo"
                   /\ params.scroll_state = before.scroll_state
            /\ (browser_right /\ sub = "scroll") =>
                   /\ params = scroll.p
                   /\ calls = scroll.eff
                   /\ \A k \in 1..Len(calls) : calls[k].fn = "scroll"
                   /\ params.previous_cursor_pos = before.previous_cursor_pos
            /\ ~browser_right =>
                   /\ calls = <<>>
                   /\ params = before

\* A scroll tick for a right hand in browser_mode with sub-mode scroll.
C29_Witness ==
    /\ ret.op = "process"
    /\ app_modes.current_mode = "browser_mode"
    /\ app_modes.browser_right_hand_mode = "scroll"
    /\ ret.arg.hand = "right"
    /\ Len(effector) = 1 /\ effector[1].fn = "scroll"
    /\ params.scroll_state.locked_direction = "down"
    /\ params.scroll_state.last_scroll_time = now

\* C30: a call of the scroll controller that gets to the pinch test while no
\* grip is held, with the pinch distance below scroll_threshold, starts the
\* grip: start_pos is the fingertips' midpoint Y of that frame, active_hand
\* the hand of that frame, locked_direction is None, no scroll tick is made
\* and last_scroll_time is not written; as long as the grip is held from one
\* call to the next, start_pos and active_hand stay what they were; and the
\* grip ends only on a frame whose pinch distance is not below the threshold.
C30_GripEngage ==
    [][IF ret'.op = "scroll"
       THEN LET ss == params.scroll_state
                st == params'.scroll_state
            IN  /\ (ret'.arg.pinched /\ ret'.arg.force /\ ~ss.is_scrolling) =>
                       /\ st.is_scrolling
                       /\ st.start_pos = ret'.arg.y
                       /\ st.active_hand = ret'.arg.hand
                       /\ st.locked_direction = None
                       /\ st.last_scroll_time = ss.last_scroll_time
                       /\ effector' = <<>>
                /\ (~ss.is_scrolling /\ st.is_scrolling) =>
                       ret'.arg.pinched /\ ret'.arg.force
                /\ (ss.is_scrolling /\ st.is_scrolling) =>
                       /\ st.start_pos = ss.start_pos
                       /\ st.active_hand = ss.active_hand
                /\ (ss.is_scrolling /\ ~st.is_scrolling) =>
                       /\ ~ret'.arg.pinched
                       /\ st.start_pos = None /\ st.active_hand = None
       ELSE params'.scroll_state = params.scroll_state]_vars

\* A grip of the right hand held while the left hand pinches at another
\* height after a scroll tick: start_pos and active_hand are still those of
\* the engaging frame.
C30_Witness ==
    /\ ret.op = "scroll"
    /\ ret.arg.pinched /\ ret.arg.force
    /\ ret.arg.hand = "left"
    /\ params.scroll_state.is_scrolling
    /\ params.scroll_state.active_hand = "right"
    /\ params.scroll_state.start_pos # ret.arg.y
    /\ params.scroll_state.last_scroll_time > 0
    /\ effector = <<>>

\* C31: while a grip is held, a call of the scroll controller for a hand
\* other than active_hand, pinching or open, leaves every field of the
\* scroll state as it was and makes no scroll tick.
C31_OtherHandIgnored ==
    [][(ret'.op = "scroll" /\ params.scroll_state.is_scrolling
        /\ ret'.arg.hand # params.scroll_state.active_hand) =>
           /\ params'.scroll_state = params.scroll_state
           /\ effector' = <<>>]_vars

\* C32: a call of the scroll controller that ends a grip (the grip was held
\* before the call and is not held after it) leaves the scroll state equal
\* to the initial one in every field, last_scroll_time included.
C32_ReleaseResetsAll ==
    [][(ret'.op = "scroll" /\ params.scroll_state.is_scrolling
        /\ ~params'.scroll_state.is_scrolling) =>
           params'.scroll_state = InitialScrollState]_vars

\* The scroll ticks of an effector trace that were emitted: the scroll calls
\* that returned.
Ticks(eff) == {k \in 1..Len(eff) : eff[k].fn = "scroll" /\ eff[k].ok}

\* C33: a call of the scroll controller emits at most one tick; a tick is
\* emitted only more than 0.1 s (ScrollThrottle) after the time kept in
\* last_scroll_time, which then becomes the current time; and in every step
\* without an emitted tick (a release, a new grip, the clock) last_scroll_time
\* stays as it is.  last_scroll_time is therefore the time of the latest
\* tick, whatever grip it belonged to, and any two ticks are at least 0.1 s
\* apart.
C33_TickThrottle ==
    [][IF ret'.op = "scroll" /\ Ticks(effector') # {}
       THEN /\ Cardinality(Ticks(effector')) = 1
            /\ now' - params.scroll_state.last_scroll_time > ScrollThrottle
            /\ params'.scroll_state.last_scroll_time = now'
       ELSE params'.scroll_state.last_scroll_time
                = params.scroll_state.last_scroll_time]_vars

\* A frame that would scroll (direction locked and matching, the amount
\* large enough) exactly 0.1 s after a tick: it is held back.
C33_Witness ==
    /\ ret.op = "scroll"
    /\ ret.arg.pinched /\ ret.arg.force
    /\ params.scroll_state.is_scrolling
    /\ params.scroll_state.active_hand = ret.arg.hand
    /\ params.scroll_state.locked_direction = "down"
    /\ ret.arg.y - params.scroll_state.start_pos > DirectionLockThreshold
    /\ params.scroll_state.last_scroll_time >= StartTime
    /\ now - params.scroll_state.last_scroll_time = ScrollThrottle
    /\ effector = <<>>

\* round(x / d) of Python: to the nearest integer, a tie to the even one.
RoundDiv(x, d) ==
    LET q == Abs(x) \div d
        r == Abs(x) % d
        n == IF 2 * r > d \/ (2 * r = d /\ q % 2 = 1) THEN q + 1 ELSE q
    IN  IF x < 0 THEN -n ELSE n

\* C34: every scroll call made by the controller has the amount
\* round(-delta * scroll_sensitivity * 80), delta being the midpoint Y of the
\* frame minus start_pos (in thousandths here); the amount is negative for a
\* positive delta and positive for a negative one; and its magnitude is
\* greater than 2.
C34_TickAmount ==
    ret.op = "scroll" =>
        \A k \in 1..Len(effector) :
            effector[k].fn = "scroll" =>
                LET delta == ret.arg.y - params.scroll_state.start_pos
                    amount == effector[k].arg
                IN  /\ amount = RoundDiv(-delta * ScrollSensitivity * 80, 1000)
                    /\ (delta > 0) = (amount < 0)
                    /\ Abs(amount) > MinScrollAmount

(***************************************************************************)
(* The scroll controller with the hand preference of the configuration:    *)
(* 'any', 'left' or 'right'.                                                *)
(***************************************************************************)
HandPreferences == {"any", "left", "right"}

InitPreference ==
    /\ now = StartTime
    /\ app_modes = DefaultAppModes
    /\ \E pref \in HandPreferences :
           params = [FreshParams EXCEPT !.scroll_hand_preference = pref]
    /\ engine = NewEngine
    /\ effector = <<>>
    /\ ret = Ret("init", None, None)
    /\ trace = NoTrace
    /\ model_manager = NewModelManager
    /\ pc = AllIdle

SpecPreference == InitPreference /\ [][NextScroll]_vars

\* Two scroll states with the same value in every field.
SameScrollState(a, b) ==
    /\ a.is_scrolling = b.is_scrolling
    /\ ToString(a.start_pos) = ToString(b.start_pos)
    /\ ToString(a.locked_direction) = ToString(b.locked_direction)
    /\ ToString(a.active_hand) = ToString(b.active_hand)
    /\ a.last_scroll_time = b.last_scroll_time

\* C35: with scroll_hand_preference 'left' or 'right', a call of the scroll
\* controller for the other hand leaves the params as they are (no grip is
\* started, continued or released) and makes no scroll call; with 'any', and
\* for the preferred hand, a pinched frame met without a grip starts one for
\* the hand of the frame.
C35_HandPreference ==
    [][ret'.op = "scroll" =>
        LET pref == params.scroll_hand_preference
            hand == ret'.arg.hand
        IN  /\ (pref # "any" /\ hand # pref) =>
                   /\ SameScrollState(params'.scroll_state, params.scroll_state)
                   /\ [params' EXCEPT !.scroll_state = params.scroll_state] = params
                   /\ effector' = <<>>
            /\ ((pref = "any" \/ hand = pref) /\ ret'.arg.force
                /\ ret'.arg.pinched /\ ~params.scroll_state.is_scrolling) =>
                   /\ params'.scroll_state.is_scrolling
                   /\ params'.scroll_state.active_hand = hand]_vars

\* Preference 'right' and a grip of the right hand: an open left hand does
\* not release it.
C35_Witness ==
    /\ ret.op = "scroll"
    /\ params.scroll_hand_preference = "right"
    /\ ret.arg.hand = "left" /\ ~ret.arg.pinched /\ ret.arg.force
    /\ params.scroll_state.is_scrolling
    /\ params.scroll_state.active_hand = "right"
    /\ params.scroll_state.locked_direction = "down"

\* C36: in every state of the scroll controller is_scrolling holds exactly
\* when active_hand is set and exactly when start_pos is set, active_hand is
\* then one of the two hands, and locked_direction is set only while
\* is_scrolling holds: the one scroll state holds at most one grip, bound to
\* one hand.
C36_GripStateConsistent ==
    LET ss == params.scroll_state
    IN  /\ ss.is_scrolling = (ss.active_hand # None)
        /\ ss.is_scrolling = (ToString(ss.start_pos) # ToString(None))
        /\ ss.is_scrolling => ss.active_hand \in {"left", "right"}
        /\ ss.locked_direction # None =>
               ss.is_scrolling /\ ss.locked_direction \in {"up", "down"}

\* A grip that had locked its direction and emitted a tick has been
\* released: no field of the grip is set any more.
C36_Witness ==
    /\ ret.op = "scroll"
    /\ ~ret.arg.pinched /\ ret.arg.force
    /\ ~params.scroll_state.is_scrolling
    /\ params.scroll_state.active_hand = None
    /\ params.scroll_state.start_pos = None
    /\ params.scroll_state.locked_direction = None
    /\ params.scroll_state.last_scroll_time >= StartTime

(***************************************************************************)
(* The cursor controller on its own: handle_cursor_control called for      *)
(* fingertips at several places.                                           *)
(***************************************************************************)
MaxMoves == 4

\* Index fingertips, in tenths of the frame.
Tips == {<<2, 3>>, <<5, 5>>, <<8, 6>>}

CursorRegions ==
    [landmarks : BOOLEAN, hand : {"right"}, gesture_type : {"none"},
     gesture_name : {None}, tip : Tips, finger_distance : {150}, center_y : {500}]

\* trace.out counts the calls; ret.val.prev is previous_cursor_pos before
\* the call.
Cursor(region, force_enable, raises) ==
    \E r \in {HandleCursorControl(params, region, force_enable, raises)} :
        /\ Len(trace.out) < MaxMoves
        /\ params' = r.p
        /\ effector' = r.eff
        /\ ret' = Ret("cursor",
                      [tip |-> region.tip, landmarks |-> region.landmarks,
                       force |-> force_enable],
                      [prev |-> params.previous_cursor_pos])
        /\ trace' = [trace EXCEPT !.out = Append(@, "cursor")]
        /\ UNCHANGED <<now, app_modes, engine, model_manager, pc>>

NextCursor ==
    \E region \in CursorRegions, force_enable \in BOOLEAN, raises \in BOOLEAN :
        Cursor(region, force_enable, raises)

SpecCursor == Init /\ [][NextCursor]_vars

\* C37: a forced call for a region with landmarks makes one pointer move; a
\* move goes to (screen_width * (1 - x), screen_height * y) for the index
\* fingertip (x, y) when no previous position is stored, and otherwise to
\* alpha * previous + (1 - alpha) * that target, the previous position being
\* the one stored by the last move that returned; previous_cursor_pos becomes
\* the position moved to when the move returns and stays as it was in every
\* other case.  Positions are in pixels, the fingertip in tenths.
C37_CursorSmoothing ==
    ret.op = "cursor" =>
        LET prev == ret.val.prev
            x == ret.arg.tip[1]
            y == ret.arg.tip[2]
            target == <<(ScreenWidth * (10 - x)) \div 10, (ScreenHeight * y) \div 10>>
            alpha == CursorSmoothingTenths
            expected == IF prev = None THEN target
                        ELSE <<(alpha * prev[1] + (10 - alpha) * target[1]) \div 10,
                               (alpha * prev[2] + (10 - alpha) * target[2]) \div 10>>
        IN  /\ Len(effector) <= 1
            /\ (ret.arg.force /\ ret.arg.landmarks) => Len(effector) = 1
            /\ effector # <<>> =>
                   /\ effector[1].fn = "moveTo"
                   /\ effector[1].arg = expected
            /\ IF effector # <<>> /\ effector[1].ok
               THEN params.previous_cursor_pos = expected
               ELSE params.previous_cursor_pos = prev

\* A move that raised after two moves that returned: the stored position is
\* still that of the second move.
C37_Witness ==
    /\ ret.op = "cursor"
    /\ Len(trace.out) = 3
    /\ Len(effector) = 1 /\ ~effector[1].ok
    /\ ret.val.prev # None
    /\ params.previous_cursor_pos = ret.val.prev
    /\ effector[1].arg # ret.val.prev
    /\ ret.val.prev \notin {<<1536, 324>>, <<960, 540>>, <<384, 648>>}

(***************************************************************************)
(* detect_gesture_type on its own. The landmarks of a hand are held as     *)
(* the three angles the helpers measure on them, in whole degrees: the     *)
(* bend of the index finger, the bend of the middle finger, and the angle  *)
(* between the two finger directions, which is the arc cosine of an        *)
(* absolute value and so lies in 0..90.                                    *)
(***************************************************************************)
ParallelThreshold == 30

PerpendicularThreshold == 20

FingerAngles == {0, 59, 60, 61, 129, 130, 131, 180}

BetweenAngles == {0, 29, 30, 31, 69, 70, 71, 89, 90}

DetectIndexFingerBend(landmarks) == landmarks.index_angle

DetectMiddleFingerBend(landmarks) == landmarks.middle_angle

DetectFingerPerpendicularity(landmarks) == landmarks.angle_between

AreFingersParallel(landmarks) ==
    DetectFingerPerpendicularity(landmarks) < ParallelThreshold

AreFingersPerpendicular(landmarks) ==
    Abs(DetectFingerPerpendicularity(landmarks) - 90) < PerpendicularThreshold

GetFingerStateInclusive(angle) ==
    IF angle <= 60 THEN "RELAXED"
    ELSE IF angle < 130 THEN "BENT"
    ELSE "EXTENDED"

GetFingerState(angle) ==
    IF angle < 60 THEN "RELAXED"
    ELSE IF angle < 130 THEN "BENT"
    ELSE "EXTENDED"

DetectGestureType(landmarks) ==
    LET index_angle == DetectIndexFingerBend(landmarks)
        middle_angle == DetectMiddleFingerBend(landmarks)
        fingers_parallel == AreFingersParallel(landmarks)
        fingers_perpendicular == AreFingersPerpendicular(landmarks)
        index_state == GetFingerState(index_angle)
        middle_state == GetFingerState(middle_angle)
        gesture_type ==
            IF index_state = "BENT"
            THEN IF fingers_parallel /\ middle_state = "BENT"
                 THEN "index_middle_both"
                 ELSE IF fingers_perpendicular
                 THEN "index_only"
                 ELSE IF ~fingers_parallel
                         /\ middle_state \in {"EXTENDED", "RELAXED"}
                 THEN "index_only"
                 ELSE "none"
            ELSE "none"
    IN  [index_angle |-> index_angle,
         middle_angle |-> middle_angle,
         index_state |-> index_state,
         middle_state |-> middle_state,
         gesture_type |-> gesture_type,
         finger_angle_between |-> DetectFingerPerpendicularity(landmarks),
         fingers_parallel |-> fingers_parallel,
         fingers_perpendicular |-> fingers_perpendicular]

GestureType(landmarks) ==
    /\ ret' = Ret("gesture_type", landmarks, DetectGestureType(landmarks))
    /\ effector' = <<>>
    /\ UNCHANGED <<now, app_modes, params, engine, trace, model_manager, pc>>

NextGestureType ==
    \E i, m \in FingerAngles, b \in BetweenAngles :
        GestureType([index_angle |-> i, middle_angle |-> m,
                     angle_between |-> b])

SpecGestureType == Init /\ [][NextGestureType]_vars

\* C38: a finger is RELAXED below 60 degrees, BENT from 60 up to 130 and
\* EXTENDED from 130; the gesture type is index_middle_both exactly when the
\* index is BENT, the fingers are parallel and the middle is BENT; it is
\* index_only exactly when the index is BENT and the fingers are
\* perpendicular, or are not parallel with the middle EXTENDED or RELAXED;
\* it is none in every other case; the fingers are never reported both
\* parallel and perpendicular.
C38_AngleTyping ==
    ret.op = "gesture_type" =>
        LET r == ret.val
            index_bent == ret.arg.index_angle >= 60 /\ ret.arg.index_angle < 130
            middle_bent ==
                ret.arg.middle_angle >= 60 /\ ret.arg.middle_angle < 130
            both == index_bent /\ r.fingers_parallel /\ middle_bent
            only == /\ index_bent
                    /\ \/ r.fingers_perpendicular
                       \/ ~r.fingers_parallel /\ ~middle_bent
        IN  /\ (r.index_state = "RELAXED") = (ret.arg.index_angle < 60)
            /\ (r.index_state = "BENT") = index_bent
            /\ (r.index_state = "EXTENDED") = (ret.arg.index_angle >= 130)
            /\ (r.middle_state = "RELAXED") = (ret.arg.middle_angle < 60)
            /\ (r.middle_state = "BENT") = middle_bent
            /\ (r.middle_state = "EXTENDED") = (ret.arg.middle_angle >= 130)
            /\ (r.gesture_type = "index_middle_both") = both
            /\ (r.gesture_type = "index_only") = only
            /\ (r.gesture_type = "none") = (~both /\ ~only)
            /\ ~(r.fingers_parallel /\ r.fingers_perpendicular)

\* A bent index at exactly 60 degrees beside a bent middle finger held
\* perpendicular to it is typed index_only.
C38_Witness ==
    /\ ret.op = "gesture_type"
    /\ ret.arg.index_angle = 60
    /\ ret.val.middle_state = "BENT"
    /\ ret.val.fingers_perpendicular
    /\ ret.val.gesture_type = "index_only"

(***************************************************************************)
(* Frames in which both hands show a fist, dispatched in the media mode    *)
(* and in the presentation mode, which both bind fist_gesture, with        *)
(* switches between the two modes and effector calls that raise.           *)
(***************************************************************************)
MaxElapsedShared == 80

LeftFist == Hand(TRUE, "left", "none", "Closed_Fist", 150, 500)
RightFist == Hand(TRUE, "right", "none", "Closed_Fist", 150, 500)

\* The regions handed to the dispatcher in a frame: one or two hands.
SharedRegions ==
    {<<RightFist>>, <<LeftFist, RightFist>>, <<RightFist, LeftFist>>,
     <<LeftFist, IndexFist>>}

SharedModes == {"media_mode", "ppt_mode"}

NextShared ==
    \/ Wait(MaxElapsedShared)
    \/ \E mode_name \in SharedModes : Switch(mode_name)
    \/ \E regs \in SharedRegions, swap \in BOOLEAN, raises \in RaiseSet :
           ProcessRegions(regs, swap, raises)

SpecShared == Init /\ [][NextShared]_vars

\* C39: in the dispatch of one frame's regions every gesture id bound with a
\* positive cooldown in the current mode has its action invoked at most
\* once, however many regions show it; and an id whose stored firing time,
\* set in whatever mode, is less than the binding's cooldown ago is not
\* invoked at all.
C39_OncePerFrame ==
    (ret.op = "regions" /\ app_modes.current_mode \in Modes
     /\ app_modes.enabled[app_modes.current_mode]) =>
        LET g == app_modes.gestures[app_modes.current_mode]
            before == [app_modes EXCEPT !.gesture_timings = ret.val.before]
        IN  \A gid \in DOMAIN g :
                g[gid].cooldown > 0 =>
                    /\ Cardinality(CallsOf(effector, gid)) <= 1
                    /\ InCooldown(before, now, gid, g[gid]) =>
                           CallsOf(effector, gid) = {}

\* C39 with the invocations that return counted: a switch of the mode leaves
\* the firing times as they are; and in the dispatch of one frame's regions
\* every gesture id bound with a positive cooldown in the current mode has
\* at most one invocation that returns, which is the last one made for it
\* in the frame, and an id whose stored firing time, set in whatever mode,
\* is less than the binding's cooldown ago is not invoked at all.
C39_Amended ==
    [][/\ ret'.op = "switch_mode" =>
              app_modes'.gesture_timings = app_modes.gesture_timings
       /\ (ret'.op = "regions" /\ app_modes.current_mode \in Modes
           /\ app_modes.enabled[app_modes.current_mode]) =>
              LET g == app_modes.gestures[app_modes.current_mode]
              IN  \A gid \in DOMAIN g :
                      g[gid].cooldown > 0 =>
                          /\ Cardinality(Returned(effector', gid)) <= 1
                          /\ \A k \in Returned(effector', gid) :
                                 \A j \in CallsOf(effector', gid) : j <= k
                          /\ InCooldown(app_modes, now, gid, g[gid]) =>
                                 CallsOf(effector', gid) = {}]_vars

\* Both hands show a fist in the presentation mode after a fist fired in
\* the media mode before the switch: with the cooldown over there is one
\* key press for the two regions; and the firing time set in the media mode
\* is what the frame started from.
C39_Witness ==
    /\ ret.op = "regions"
    /\ app_modes.current_mode = "ppt_mode"
    /\ Cardinality(Showing(ret.arg, "fist_gesture")) = 2
    /\ "fist_gesture" \in DOMAIN ret.val.before
    /\ ret.val.before["fist_gesture"] > StartTime
    /\ ret.val.before["fist_gesture"] < app_modes.last_mode_switch
    /\ Len(effector) = 1
    /\ effector[1].gid = "fist_gesture" /\ effector[1].ok
    /\ LastFired(app_modes, "fist_gesture") = now

====
